---------------------------- MODULE Spec2Model ----------------------------
(***************************************************************************)
(* Verification model of the git-to-jira pipeline: History Miner           *)
(* (git_analyzer.py), batch analysis route (routes/folders.py), Ticket     *)
(* Grouper (ticket_suggester.py), Duplicate Matcher (jira_client.py) and   *)
(* the CLI / MCP batch entry points.                                       *)
(*                                                                         *)
(* Text is modelled as a sequence of one-character strings, so that the    *)
(* regular expressions and substring tests of the code are computed        *)
(* character by character.  Time is counted in whole days.                 *)
(***************************************************************************)
EXTENDS Integers, Sequences, FiniteSets, TLC

VARIABLES
    \* --- History Miner commit window (git_analyzer.py) ---
    walk,          \* repo.iter_commits() order from HEAD: seq of [sha, committed_date]
    max_commits,   \* argument of _get_recent_commits
    since_days,    \* argument of _get_recent_commits
    now,           \* datetime.now(timezone.utc), in days
    recent_commits,\* value returned by _get_recent_commits
    cpc,           \* position of the caller: "start" | "done"
    \* --- Duplicate Matcher queries (jira_client.py) ---
    jq_key,        \* project_key argument
    jq_text,       \* free-text argument (summary, repo name, branch, text)
    jq_op,         \* operation that ran: "none" | "check_duplicate" | ...
    jq_args,       \* the other arguments the operation was called with
    sent,          \* queries handed to client.search_issues, in order
    jq_raised,     \* exception that left the call: "none" | "ValueError" | "JIRAError"
    tracker,       \* the issue tracker: reachable or not, and what its searches return
    jq_result,     \* value returned by the call
    jq_created,    \* issues created in the tracker
    \* --- Ticket Grouper (ticket_suggester.py) ---
    sg_summaries,  \* the list of WorkSummary handed to suggest
    sg_project,    \* project_key argument
    runs,          \* results of the calls of suggest made so far, with their time
    calls,         \* number of calls of suggest made by this process
    clock,         \* wall clock
    \* --- Batch analysis and batch suggestion (routes/folders.py, cli, mcp) ---
    bt_paths,      \* req.paths / the paths argument
    bt_max_commits,\* req.max_commits
    bt_since_days, \* req.since_days
    bt_parallel,   \* query parameter parallel
    bt_use_cache,  \* query parameter use_cache
    bt_op,         \* handler that was called
    bt_pc,         \* "start" | "pool" | "returned" | "raised"
    futures,       \* the futures of executor.submit, by index
    done_queue,    \* completed futures not yet yielded by as_completed
    bt_results,    \* the list `results` of analyze_folders
    bt_summaries,  \* the list `summaries` of the batch suggestion
    bt_response,   \* value returned by the handler
    bt_raised,     \* an exception left the handler
    cache,         \* the History Miner cache
    \* --- Repository Locator (folder_scanner.py) ---
    worktree,      \* state of each repository on disk: commits, index, work tree
    sc_base_path,  \* base_path argument of FolderScanner(), or NoBasePath
    sc_dirs,       \* config.scan_directories
    sc_hidden,     \* config.hidden_repos
    sc_include_hidden, \* include_hidden argument of scan
    sc_legacy_mode,\* self.legacy_mode
    sc_scan_config,\* self.scan_config
    sc_pc,         \* "new" | "ready" | "returned" | "raised"
    sc_repos,      \* value returned by scan
    \* --- Issue-key extraction (git_analyzer.py, JIRA_REF_PATTERN) ---
    rf_text,       \* the commit message or branch name
    rf_source,     \* "commit" | "branch": where the text was read
    rf_refs,       \* the jira_refs built from it
    rf_pc,         \* "start" | "done"
    \* --- External tools of the History Miner (git_analyzer.py) ---
    tl_env,        \* how the repository, git and gh behave during the call
    tl_op,         \* operation that was called
    tl_pc,         \* "start" | "fetch_wait" | "gh_wait" | "pull_wait" | "returned" | "raised"
    tl_elapsed,    \* seconds spent waiting for the external process
    tl_stash,      \* entries on the stash of the repository
    tl_result,     \* value returned by the operation
    \* --- History Miner cache over a sequence of requests ---
    ch_switched,   \* repositories whose checked-out branch changed since the start
    ch_log,        \* every snapshot the cache stored, and whether a clear covered it since
    ch_last,       \* the last request: its arguments and what it returned
    ch_ops,        \* number of requests, clock advances and checkouts so far
    \* --- Ticket Grouper priorities ---
    pr_log,         \* the totals and the priority of each candidate of the call of suggest
    \* --- suggest route and ticket creation (routes/jira_tickets.py) ---
    rt_summaries,  \* req.summaries of the suggest requests
    rt_key,        \* req.project_key
    rt_issues,     \* the issues of the tracker, oldest first
    rt_seen,       \* the issues the last suggest request searched
    rt_resp,       \* the candidates of the last suggest response
    rt_raised,     \* the exception that left the last suggest request
    rt_made,       \* the candidates a ticket was created for
    rt_steps,      \* requests served so far
    \* --- stale branches of one repository (folder_scanner.py) ---
    st_tree,       \* the repository: its branches, their histories and ages
    st_pc,         \* "idle" | "ready" | "returned"
    st_baseline,   \* default_branch_name of _scan_repo
    st_info        \* the RepoInfo returned

commitVars == <<walk, max_commits, since_days, now, recent_commits, cpc>>

jqlVars == <<jq_key, jq_text, jq_op, jq_args, sent, jq_raised, tracker,
             jq_result, jq_created>>

suggestVars == <<sg_summaries, sg_project, runs, calls, clock>>

batchVars == <<bt_paths, bt_max_commits, bt_since_days, bt_parallel,
               bt_use_cache, bt_op, bt_pc, futures, done_queue, bt_results,
               bt_summaries, bt_response, bt_raised, cache>>

scanVars == <<worktree, sc_base_path, sc_dirs, sc_hidden, sc_include_hidden,
              sc_legacy_mode, sc_scan_config, sc_pc, sc_repos>>

refVars == <<rf_text, rf_source, rf_refs, rf_pc>>

toolVars == <<tl_env, tl_op, tl_pc, tl_elapsed, tl_stash, tl_result>>

cacheVars == <<ch_switched, ch_log, ch_last, ch_ops>>

prioVars == <<pr_log>>

routeVars == <<rt_summaries, rt_key, rt_issues, rt_seen, rt_resp, rt_raised,
               rt_made, rt_steps>>

staleVars == <<st_tree, st_pc, st_baseline, st_info>>

vars == <<commitVars, jqlVars, suggestVars, batchVars, scanVars, refVars, toolVars, cacheVars, prioVars, routeVars, staleVars>>

\* Values of the variables of a component that a specification does not use.
CommitIdle ==
    /\ walk = <<>>
    /\ max_commits = 0
    /\ since_days = 0
    /\ now = 0
    /\ recent_commits = <<>>
    /\ cpc = "idle"

SuggestIdle ==
    /\ sg_summaries = <<>>
    /\ sg_project = <<>>
    /\ runs = <<>>
    /\ calls = 0
    /\ clock = 0

BatchIdle ==
    /\ bt_paths = <<>>
    /\ bt_max_commits = 0
    /\ bt_since_days = 0
    /\ bt_parallel = FALSE
    /\ bt_use_cache = FALSE
    /\ bt_op = "idle"
    /\ bt_pc = "idle"
    /\ futures = <<>>
    /\ done_queue = <<>>
    /\ bt_results = <<>>
    /\ bt_summaries = <<>>
    /\ bt_response = <<>>
    /\ bt_raised = FALSE
    /\ cache = {}

ScanIdle ==
    /\ worktree = <<>>
    /\ sc_base_path = <<>>
    /\ sc_dirs = <<>>
    /\ sc_hidden = {}
    /\ sc_include_hidden = FALSE
    /\ sc_legacy_mode = FALSE
    /\ sc_scan_config = <<>>
    /\ sc_pc = "idle"
    /\ sc_repos = <<>>

RefIdle ==
    /\ rf_text = <<>>
    /\ rf_source = "none"
    /\ rf_refs = <<>>
    /\ rf_pc = "idle"

ToolIdle ==
    /\ tl_env = <<>>
    /\ tl_op = "idle"
    /\ tl_pc = "idle"
    /\ tl_elapsed = 0
    /\ tl_stash = 0
    /\ tl_result = <<>>

CacheIdle ==
    /\ ch_switched = {}
    /\ ch_log = {}
    /\ ch_last = [op |-> "idle"]
    /\ ch_ops = 0

PrioIdle == pr_log = <<>>

RouteIdle ==
    /\ rt_summaries = <<>>
    /\ rt_key = <<>>
    /\ rt_issues = <<>>
    /\ rt_seen = <<>>
    /\ rt_resp = <<>>
    /\ rt_raised = "none"
    /\ rt_made = <<>>
    /\ rt_steps = 0

StaleIdle ==
    /\ st_tree = <<>>
    /\ st_pc = "idle"
    /\ st_baseline = <<>>
    /\ st_info = <<>>

JqlIdle ==
    /\ jq_key = <<>>
    /\ jq_text = <<>>
    /\ jq_op = "idle"
    /\ jq_args = <<>>
    /\ sent = <<>>
    /\ jq_raised = "none"
    /\ tracker = <<>>
    /\ jq_result = <<>>
    /\ jq_created = <<>>

(***************************************************************************)
(* Bounds of the model                                                     *)
(***************************************************************************)
MaxWalk == 4        \* longest history walk enumerated
MaxDate == 4        \* commit dates range over 0..MaxDate (days)
MaxCount == 3       \* max_commits ranges over 0..MaxCount
MaxSince == 2       \* since_days ranges over 0..MaxSince

(***************************************************************************)
(* Generic sequence helpers                                                *)
(***************************************************************************)
Min(a, b) == IF a < b THEN a ELSE b

Take(s, n) == SubSeq(s, 1, Min(n, Len(s)))

SeqsUpTo(S, n) == UNION {[1..k -> S] : k \in 0..n}

(***************************************************************************)
(* Text helpers: a text is a sequence of one-character strings             *)
(***************************************************************************)
UpperSeq == <<"A","B","C","D","E","F","G","H","I","J","K","L","M",
              "N","O","P","Q","R","S","T","U","V","W","X","Y","Z">>

LowerSeq == <<"a","b","c","d","e","f","g","h","i","j","k","l","m",
              "n","o","p","q","r","s","t","u","v","w","x","y","z">>

UpperLetters == {UpperSeq[i] : i \in 1..26}

LowerLetters == {LowerSeq[i] : i \in 1..26}

DigitChars == {"0","1","2","3","4","5","6","7","8","9"}

\* Characters of the class [\x00-\x1f\x7f] that the model uses.
ControlChars == {"\t", "\n", "\r", "\f"}

\* Characters removed by str.strip().
WhitespaceChars == {" "} \cup ControlChars

\* \w of the re module.
UpperOf == [c \in LowerLetters |-> UpperSeq[CHOOSE i \in 1..26 : LowerSeq[i] = c]]

LowerOf == [c \in UpperLetters |-> LowerSeq[CHOOSE i \in 1..26 : UpperSeq[i] = c]]

WordChars == UpperLetters \cup LowerLetters \cup DigitChars \cup {"_"}

\* \w of the re module.
IsWordChar(c) == c \in WordChars

ToUpper(c) == IF c \in LowerLetters THEN UpperOf[c] ELSE c

ToLower(c) == IF c \in UpperLetters THEN LowerOf[c] ELSE c

Upper(t) == [i \in 1..Len(t) |-> ToUpper(t[i])]

Lower(t) == [i \in 1..Len(t) |-> ToLower(t[i])]

RECURSIVE Concat(_)
Concat(ts) == IF ts = <<>> THEN <<>> ELSE Head(ts) \o Concat(Tail(ts))

Drop(t, n) == SubSeq(t, n + 1, Len(t))

\* t[i .. i+Len(p)-1] = p
MatchesAt(t, i, p) ==
    /\ i >= 1
    /\ i + Len(p) - 1 <= Len(t)
    /\ \A k \in 1..Len(p) : t[i + k - 1] = p[k]

\* the same, ignoring case (re.IGNORECASE)
MatchesAtNoCase(t, i, p) ==
    /\ i >= 1
    /\ i + Len(p) - 1 <= Len(t)
    /\ \A k \in 1..Len(p) : ToLower(t[i + k - 1]) = ToLower(p[k])

\* `p in t`
Contains(t, p) == \E i \in 1..(Len(t) + 1) : MatchesAt(t, i, p)

\* \b before position i (i = Len(t)+1 is the end of the text)
WordBoundary(t, i) ==
    LET before == i > 1 /\ i - 1 <= Len(t) /\ IsWordChar(t[i - 1])
        after == i >= 1 /\ i <= Len(t) /\ IsWordChar(t[i])
    IN before # after

\* str.strip()
RECURSIVE LStrip(_)
LStrip(t) ==
    IF t # <<>> /\ Head(t) \in WhitespaceChars THEN LStrip(Tail(t)) ELSE t

RECURSIVE RStrip(_)
RStrip(t) ==
    IF t # <<>> /\ t[Len(t)] \in WhitespaceChars
    THEN RStrip(SubSeq(t, 1, Len(t) - 1))
    ELSE t

Strip(t) == RStrip(LStrip(t))

\* str.replace(ch, repl) for a one-character ch
RECURSIVE ReplaceChar(_, _, _)
ReplaceChar(t, ch, repl) ==
    IF Len(t) = 0 THEN <<>>
    ELSE IF Len(t) = 1 THEN (IF t[1] = ch THEN repl ELSE t)
    ELSE LET m == Len(t) \div 2
         IN ReplaceChar(SubSeq(t, 1, m), ch, repl)
            \o ReplaceChar(SubSeq(t, m + 1, Len(t)), ch, repl)

\* str.split(sep): left to right, non-overlapping occurrences of sep
RECURSIVE SplitFrom(_, _, _)
SplitFrom(t, sep, st) ==
    LET occ == {i \in st..Len(t) : MatchesAt(t, i, sep)}
    IN IF occ = {} THEN <<SubSeq(t, st, Len(t))>>
       ELSE LET i == CHOOSE x \in occ : \A y \in occ : x <= y
            IN <<SubSeq(t, st, i - 1)>> \o SplitFrom(t, sep, i + Len(sep))

Split(t, sep) == SplitFrom(t, sep, 1)

\* t.split(sep)[-1]
SplitLast(t, sep) == Split(t, sep)[Len(Split(t, sep))]

\* t.split(sep)[0]
SplitFirst(t, sep) == Split(t, sep)[1]

(***************************************************************************)
(* History Miner: commit window                                            *)
(***************************************************************************)
\* Index of the first element of the max_count-limited walk that is older
\* than `since`, or one past the end when there is none (the `break`).
RECURSIVE FirstOlder(_, _, _)
FirstOlder(w, since, i) ==
    IF i > Len(w) THEN i
    ELSE IF w[i].committed_date < since THEN i
    ELSE FirstOlder(w, since, i + 1)

\* Bug variants used to test the claims: a filter instead of a prefix scan,
\* and a scan that also stops at a commit exactly on the boundary.
GetRecentCommitsFilter(w, maxc, sinced, nowT) ==
    LET since == nowT - sinced
        limited == Take(w, maxc)
    IN SelectSeq(limited, LAMBDA c : ~(c.committed_date < since))

RECURSIVE FirstOlderOrEqual(_, _, _)
FirstOlderOrEqual(w, since, i) ==
    IF i > Len(w) THEN i
    ELSE IF w[i].committed_date <= since THEN i
    ELSE FirstOlderOrEqual(w, since, i + 1)

GetRecentCommitsStrict(w, maxc, sinced, nowT) ==
    LET since == nowT - sinced
        limited == Take(w, maxc)
        stop == FirstOlderOrEqual(limited, since, 1)
    IN SubSeq(limited, 1, stop - 1)

GetRecentCommits(w, maxc, sinced, nowT) ==
    LET since == nowT - sinced
        limited == Take(w, maxc)              \* iter_commits(max_count=max_commits)
        stop == FirstOlder(limited, since, 1) \* if commit_dt < since: break
    IN SubSeq(limited, 1, stop - 1)

Walks ==
    {[i \in 1..Len(d) |-> [sha |-> i, committed_date |-> d[i]]] :
        d \in SeqsUpTo(0..MaxDate, MaxWalk)}

InitCommits ==
    /\ walk \in Walks
    /\ max_commits \in 0..MaxCount
    /\ since_days \in 0..MaxSince
    /\ now = MaxDate
    /\ recent_commits = <<>>
    /\ cpc = "start"
    /\ JqlIdle
    /\ SuggestIdle
    /\ BatchIdle
    /\ ScanIdle
    /\ RefIdle
    /\ ToolIdle
    /\ CacheIdle
    /\ PrioIdle
    /\ RouteIdle
    /\ StaleIdle

GetCommits ==
    /\ cpc = "start"
    /\ recent_commits' = GetRecentCommits(walk, max_commits, since_days, now)
    /\ cpc' = "done"
    /\ UNCHANGED <<walk, max_commits, since_days, now>>
    /\ UNCHANGED <<jqlVars, suggestVars, batchVars, scanVars, refVars, toolVars, cacheVars, prioVars, routeVars, staleVars>>

NextCommits == GetCommits

SpecCommits == InitCommits /\ [][NextCommits]_vars

Range(s) == {s[i] : i \in DOMAIN s}

Since == now - since_days

InWindow(i) == ~(walk[i].committed_date < Since)

WindowLimit == Min(max_commits, Len(walk))

\* C5: the commit window is a prefix scan: recent_commits is exactly the
\* longest prefix of the walk from HEAD that has at most max_commits entries
\* and contains no commit older than since_days; nothing after the first
\* older commit is returned.
C5_PrefixScan ==
    cpc = "done" =>
        LET n == Len(recent_commits) IN
        /\ n <= WindowLimit
        /\ recent_commits = SubSeq(walk, 1, n)
        /\ \A i \in 1..n : InWindow(i)
        /\ (n < WindowLimit) => ~InWindow(n + 1)

\* C5 witness: the walk stopped at an old commit that is followed, within
\* max_commits, by a commit that is inside the window.
C5_Witness ==
    /\ cpc = "done"
    /\ Len(recent_commits) >= 1
    /\ \E i, j \in 1..WindowLimit :
          /\ i = Len(recent_commits) + 1
          /\ i < j
          /\ InWindow(j)

\* C6 (as claimed): every commit that is within since_days and within the
\* first max_commits entries of the walk is included in recent_commits,
\* also when the dates are not monotonically decreasing along the walk.
C6_Completeness ==
    cpc = "done" =>
        \A i \in 1..WindowLimit :
            InWindow(i) => walk[i] \in Range(recent_commits)

\* C6 (amended): every commit that is within since_days, within the first
\* max_commits entries of the walk, and preceded in the walk by no commit
\* older than since_days is included in recent_commits.
C6_CompletenessBeforeFirstOld ==
    cpc = "done" =>
        \A i \in 1..WindowLimit :
            (\A j \in 1..i : InWindow(j)) => walk[i] \in Range(recent_commits)

\* C6 witness: a commit exactly on the window boundary is included while a
\* later in-window commit behind an old one exists.
C6_Witness ==
    /\ cpc = "done"
    /\ \E i \in 1..Len(recent_commits) : walk[i].committed_date = Since
    /\ \E i, j \in 1..WindowLimit : i < j /\ ~InWindow(i) /\ InWindow(j)

(***************************************************************************)
(* Duplicate Matcher: query construction (jira_client.py)                  *)
(***************************************************************************)
SummaryCut == 60        \* core_summary[:60]
ShaCut == 7             \* sha[:7]
ShaMinLen == 6          \* len(safe_sha) < 6: continue
MaxShas == 5            \* (commit_shas or [])[:5]
KeyTailMin == 1         \* {1,9} of _PROJECT_KEY_PATTERN
KeyTailMax == 9

\* Alternatives of the keyword pattern, in the order the pattern lists them.
JqlKeywords ==
    << <<"A","N","D">>, <<"O","R">>, <<"N","O","T">>,
       <<"O","R","D","E","R"," ","B","Y">>, <<"I","N">>, <<"I","S">>,
       <<"W","A","S">>, <<"C","H","A","N","G","E","D">> >>

\* Length of the match of \b(AND|OR|...)\b at position i, 0 when none.
KeywordMatchLen(t, i) ==
    LET hits == {k \in 1..Len(JqlKeywords) :
                    /\ MatchesAtNoCase(t, i, JqlKeywords[k])
                    /\ WordBoundary(t, i + Len(JqlKeywords[k]))}
    IN IF WordBoundary(t, i) /\ hits # {}
       THEN Len(JqlKeywords[CHOOSE k \in hits : \A j \in hits : k <= j])
       ELSE 0

\* re.sub(pattern, "", value): leftmost matches, left to right, not overlapping
RECURSIVE RemoveKeywords(_, _)
RemoveKeywords(t, i) ==
    LET starts == {j \in i..Len(t) : KeywordMatchLen(t, j) > 0}
    IN IF starts = {} THEN SubSeq(t, i, Len(t))
       ELSE LET j == CHOOSE x \in starts : \A y \in starts : x <= y
            IN SubSeq(t, i, j - 1) \o RemoveKeywords(t, j + KeywordMatchLen(t, j))

RemoveControl(t) == SelectSeq(t, LAMBDA c : c \notin ControlChars)

\* Bug variant: the single quote is not escaped.
SanitizeJqlTextNoApostrophe(value) ==
    LET v1 == RemoveControl(value)
        v2 == ReplaceChar(v1, "\\", <<"\\", "\\">>)
        v3 == ReplaceChar(v2, "\"", <<"\\", "\"">>)
    IN Strip(RemoveKeywords(v3, 1))

SanitizeJqlText(value) ==
    LET v1 == RemoveControl(value)
        v2 == ReplaceChar(v1, "\\", <<"\\", "\\">>)
        v3 == ReplaceChar(v2, "\"", <<"\\", "\"">>)
        v4 == ReplaceChar(v3, "'", <<"\\", "'">>)
    IN Strip(RemoveKeywords(v4, 1))

\* _PROJECT_KEY_PATTERN.match(key): ^[A-Z][A-Z0-9]{1,9}$ ; `$` also matches
\* before a final newline.
MatchesKeyBody(k) ==
    /\ Len(k) >= 1 + KeyTailMin
    /\ Len(k) <= 1 + KeyTailMax
    /\ k[1] \in UpperLetters
    /\ \A i \in 2..Len(k) : k[i] \in UpperLetters \cup DigitChars

ProjectKeyPatternMatch(k) ==
    \/ MatchesKeyBody(k)
    \/ /\ Len(k) >= 1
       /\ k[Len(k)] = "\n"
       /\ MatchesKeyBody(SubSeq(k, 1, Len(k) - 1))

\* _validate_project_key: [ok |-> FALSE] stands for the ValueError
ValidateProjectKeyNoStrip(key) ==
    LET k == Upper(key)
    IN [ok |-> ProjectKeyPatternMatch(k), key |-> k]

ValidateProjectKey(key) ==
    LET k == Upper(Strip(key))
    IN [ok |-> ProjectKeyPatternMatch(k), key |-> k]

\* re.sub(r"^\[.*?\]\s*", "", t)
RECURSIVE SkipSpace(_, _)
SkipSpace(t, i) ==
    IF i <= Len(t) /\ t[i] \in WhitespaceChars THEN SkipSpace(t, i + 1) ELSE i

StripBracketPrefix(t) ==
    LET closes == {j \in 2..Len(t) :
                      /\ t[j] = "]"
                      /\ \A k \in 2..(j - 1) : t[k] # "\n"}
    IN IF t # <<>> /\ t[1] = "[" /\ closes # {}
       THEN LET j == CHOOSE x \in closes : \A y \in closes : x <= y
            IN Drop(t, SkipSpace(t, j + 1) - 1)
       ELSE t

DefaultBranches ==
    { <<"m","a","i","n">>, <<"m","a","s","t","e","r">>,
      <<"d","e","v","e","l","o","p","m","e","n","t">>,
      <<"d","e","v","e","l","o","p">> }

PullSep == <<"/","p","u","l","l","/">>

Query(key, texts) == [key |-> key, texts |-> texts]

\* check_duplicate, strategy 1: the text searched in the summary field
SummarySearchText(summary) ==
    LET clean_summary == SanitizeJqlText(summary)
        core_summary == Strip(StripBracketPrefix(clean_summary))
    IN IF core_summary # <<>> THEN Take(core_summary, SummaryCut)
       ELSE Take(clean_summary, SummaryCut)

\* strategies over commit SHAs (check_duplicate strategy 2, find_existing 4)
RECURSIVE ShaQueries(_, _)
ShaQueries(key, shas) ==
    IF shas = <<>> THEN <<>>
    ELSE LET safe_sha == SanitizeJqlText(Take(Head(shas), ShaCut))
         IN (IF Len(safe_sha) < ShaMinLen THEN <<>>
             ELSE <<Query(key, <<safe_sha>>)>>)
            \o ShaQueries(key, Tail(shas))

CheckDuplicateQueries(key, summary, commit_shas) ==
    LET search_text == SummarySearchText(summary)
    IN (IF search_text # <<>>
        THEN <<Query(key, <<SanitizeJqlText(search_text)>>)>>
        ELSE <<>>)
       \o ShaQueries(key, Take(commit_shas, MaxShas))

RECURSIVE PrQueries(_, _)
PrQueries(key, pr_urls) ==
    IF pr_urls = <<>> THEN <<>>
    ELSE LET pr_url == Head(pr_urls)
             pr_ref == SanitizeJqlText(SplitLast(pr_url, PullSep))
             repo_slug == SanitizeJqlText(
                              SplitLast(SplitFirst(pr_url, PullSep), <<"/">>))
         IN (IF Contains(pr_url, PullSep) /\ repo_slug # <<>> /\ pr_ref # <<>>
             THEN <<Query(key, <<repo_slug, <<"p","u","l","l","/">> \o pr_ref>>)>>
             ELSE <<>>)
            \o PrQueries(key, Tail(pr_urls))

FindExistingQueries(key, repo_name, branch, pr_urls, commit_shas) ==
    LET clean_repo == SanitizeJqlText(repo_name)
        clean_branch == SanitizeJqlText(branch)
    IN (IF clean_repo # <<>> THEN <<Query(key, <<clean_repo>>)>> ELSE <<>>)
       \o (IF branch # <<>> /\ branch \notin DefaultBranches /\ clean_branch # <<>>
           THEN <<Query(key, <<clean_branch, clean_branch>>)>>
           ELSE <<>>)
       \o PrQueries(key, pr_urls)
       \o ShaQueries(key, Take(commit_shas, MaxShas))

\* re.match(r"^\d{4}-\d{2}-\d{2}$", safe_since)
IsDate(t) ==
    LET body == IF t # <<>> /\ t[Len(t)] = "\n"
                THEN SubSeq(t, 1, Len(t) - 1) ELSE t
    IN /\ Len(body) = 10
       /\ \A i \in {1, 2, 3, 4, 6, 7, 9, 10} : body[i] \in DigitChars
       /\ body[5] = "-"
       /\ body[8] = "-"

SearchIssuesSafeQueries(key, text, since) ==
    LET safe_text == SanitizeJqlText(text)
        safe_since == SanitizeJqlText(since)
    IN <<Query(key, <<safe_text>>
                    \o (IF since # <<>> /\ IsDate(safe_since)
                        THEN <<safe_since>> ELSE <<>>))>>

(***************************************************************************)
(* The issue tracker and the results of the Duplicate Matcher              *)
(***************************************************************************)
MaxResultsSummary == 5      \* check_duplicate, strategy 1: maxResults=5
MaxResultsSha == 3          \* strategies over commit SHAs: maxResults=3
MaxResultsPr == 5           \* find_existing, strategy 3: max_results=5
MaxResultsCollect == 10     \* find_existing._collect(max_results=10)
DefaultMaxResults == 20     \* search_issues(max_results=20)
DefaultMaxResultsSafe == 50 \* search_issues_safe(max_results=50)

Issue(key, summary) == [key |-> key, summary |-> summary, status |-> "Open"]

IssueT1 == Issue(<<"T","E","A","M","-","1">>, <<"f","i","x"," ","l","o","g","i","n">>)

IssueT2 == Issue(<<"T","E","A","M","-","2">>, <<"r","e","v","e","r","t"," ","a","b","c","1","2","3","4">>)

IssueT3 == Issue(<<"T","E","A","M","-","3">>, <<"l","o","g","i","n"," ","p","a","g","e">>)

NewIssueKey == <<"T","E","A","M","-","9">>

ErrorKey == <<"E","R","R","O","R">>

NoError == "None"

\* A tracker: whether it can be reached, and the issues its search returns
\* for a query of each kind (what matches a JQL text is the tracker's affair)
Tracker(up, summary, sha) ==
    [up |-> up, hits |-> [summary |-> summary, branch |-> <<>>, pr |-> <<>>, sha |-> sha]]

TrackerQuiet == Tracker(TRUE, <<>>, <<>>)

TrackerDown == Tracker(FALSE, <<IssueT1>>, <<IssueT2>>)

Trackers ==
    { TrackerQuiet, TrackerDown,
      Tracker(TRUE, <<IssueT1>>, <<>>),
      Tracker(TRUE, <<>>, <<IssueT1>>),
      Tracker(TRUE, <<IssueT1>>, <<IssueT1>>),
      Tracker(TRUE, <<IssueT2>>, <<>>),
      Tracker(TRUE, <<>>, <<IssueT2>>),
      Tracker(TRUE, <<IssueT1>>, <<IssueT3>>),
      Tracker(TRUE, <<IssueT1, IssueT3>>, <<>>),
      [Tracker(TRUE, <<>>, <<>>) EXCEPT !.hits.branch = <<IssueT3>>,
                                        !.hits.pr = <<IssueT1, IssueT3>>] }

\* self.client.search_issues(jql, maxResults=n) for a query of the given kind
ClientSearch(kind, n, trk) ==
    IF trk.up THEN [raised |-> FALSE, value |-> Take(trk.hits[kind], n)]
    ELSE [raised |-> TRUE, value |-> <<>>]

\* `try: results = search_issues(...) ... except Exception: pass`
GuardedSearch(kind, n, trk) == ClientSearch(kind, n, trk).value

\* ExistingJiraMatch of an issue
MatchOf(issue) ==
    [key |-> issue.key, summary |-> issue.summary, status |-> issue.status,
     url |-> <<"/", "b", "r", "o", "w", "s", "e", "/">> \o issue.key]

\* matches[key] = ... for the issues of one result; keep_first is the
\* `if key not in matches` guard
RECURSIVE Collect1(_, _, _)
Collect1(matches, results, keep_first) ==
    IF results = <<>> THEN matches
    ELSE LET m == MatchOf(Head(results))
             present == \E i \in DOMAIN matches : matches[i].key = m.key
         IN Collect1(IF present
                     THEN (IF keep_first THEN matches
                           ELSE [i \in DOMAIN matches |->
                                    IF matches[i].key = m.key THEN m ELSE matches[i]])
                     ELSE Append(matches, m),
                     Tail(results), keep_first)

\* the SHA strategies: one guarded search for each usable SHA prefix
RECURSIVE CollectShas(_, _, _)
CollectShas(matches, shas, trk) ==
    IF shas = <<>> THEN matches
    ELSE CollectShas(
             IF Len(SanitizeJqlText(Take(Head(shas), ShaCut))) < ShaMinLen THEN matches
             ELSE Collect1(matches, GuardedSearch("sha", MaxResultsSha, trk), TRUE),
             Tail(shas), trk)

CheckDuplicateMatches(summary, commit_shas, trk) ==
    LET first == IF SummarySearchText(summary) # <<>>
                 THEN Collect1(<<>>, GuardedSearch("summary", MaxResultsSummary, trk), FALSE)
                 ELSE <<>>
    IN CollectShas(first, Take(commit_shas, MaxShas), trk)

\* lines 144-152
Confidence(match_list, commit_shas) ==
    IF match_list = <<>> THEN "none"
    ELSE IF Len(match_list) >= 2 THEN "high"
    ELSE IF commit_shas # <<>>
            /\ \E i \in DOMAIN match_list, j \in DOMAIN commit_shas :
                  Contains(match_list[i].summary, Take(commit_shas[j], ShaCut))
    THEN "high"
    ELSE "medium"

\* DuplicateCheckResult(**kw): the model declares is_duplicate and
\* existing_keys, and pydantic ignores the keywords it does not declare
DuplicateCheckResult(kw) ==
    [is_duplicate |-> kw.is_duplicate, existing_keys |-> kw.existing_keys]

CheckDuplicateResult(summary, commit_shas, trk) ==
    LET match_list == CheckDuplicateMatches(summary, commit_shas, trk)
        keys == [i \in DOMAIN match_list |-> match_list[i].key]
    IN DuplicateCheckResult([is_duplicate |-> Len(keys) > 0,
                             confidence |-> Confidence(match_list, commit_shas),
                             existing_keys |-> keys,
                             matches |-> match_list])

RECURSIVE CollectPrs(_, _, _)
CollectPrs(matches, pr_urls, trk) ==
    IF pr_urls = <<>> THEN matches
    ELSE CollectPrs(
             IF PrQueries(<<>>, <<Head(pr_urls)>>) = <<>> THEN matches
             ELSE Collect1(matches, GuardedSearch("pr", MaxResultsPr, trk), TRUE),
             Tail(pr_urls), trk)

FindExistingResult(repo_name, branch, pr_urls, commit_shas, trk) ==
    LET m1 == IF SanitizeJqlText(repo_name) # <<>>
              THEN Collect1(<<>>, GuardedSearch("summary", MaxResultsCollect, trk), TRUE)
              ELSE <<>>
        m2 == IF branch # <<>> /\ branch \notin DefaultBranches
                 /\ SanitizeJqlText(branch) # <<>>
              THEN Collect1(m1, GuardedSearch("branch", MaxResultsCollect, trk), TRUE)
              ELSE m1
        m3 == CollectPrs(m2, pr_urls, trk)
    IN CollectShas(m3, Take(commit_shas, MaxShas), trk)

\* JiraClient.search_issues: the list of dicts, or the exception
SearchIssuesResult(kind, max_results, trk) ==
    LET r == ClientSearch(kind, max_results, trk)
    IN [raised |-> r.raised,
        value |-> [i \in DOMAIN r.value |-> MatchOf(r.value[i])]]

\* texts used as summary and as commit SHA in the calls with a busy tracker
ShaLikeTexts == { <<>>, <<"a","b","c">>, <<"a","b","c","1","2","3","4">>, <<"a","b","c","1","2","3","4","d","e","f">>, <<"f","i","x"," ","l","o","g","i","n">> }

\* ---- inputs of the Duplicate Matcher operations ----
MaxToks == 3        \* a free text is made of at most MaxToks tokens
MaxKeyToks == 3     \* a project key is made of at most MaxKeyToks tokens

TextTokens ==
    { <<"A","n","D">>, <<"O","R","D","E","R"," ","B","Y">>,
      <<"x">>, <<" ">>, <<"\"">>, <<"'">>, <<"\\">>, <<"[","r","]">> }

\* texts with control characters and the other keywords
ExtraTexts ==
    { <<"A","\n","N","D">>, <<"x"," ","O","\t","R"," ","\"">>,
      <<"\n","i","s"," ","n","o","t"," ","I","N","\n">>,
      <<"[","\n","]"," ","o","r">>, <<"\\","\n","\"","\t","'">> }

Texts == {Concat(ts) : ts \in SeqsUpTo(TextTokens, MaxToks)} \cup ExtraTexts

ShortTexts == { <<"x">>, <<"\"", " ", "O", "R", " ", "x">> }

KeyTokens == { <<"A">>, <<"b">>, <<"1">>, <<" ">>, <<"-">>, <<"\n">>, <<"\"">> }

LongKey == <<"A","B","C","D","E","F","G","H","I","J">>

Keys == {Concat(ts) : ts \in SeqsUpTo(KeyTokens, MaxKeyToks)}
            \cup {LongKey, LongKey \o <<"K">>}

DefaultKey == <<"T","E","A","M">>

HexSha == <<"a","b","c","1","2","3","4","d","e","f">>

SomeDate == <<"2","0","2","4","-","0","1","-","3","1">>

Pad(n) == [i \in 1..n |-> "x"]

\* lengths of filler put in front of a summary so that the 60-character cut
\* falls inside the text
PadLens == {0, SummaryCut - 9, SummaryCut - 4, SummaryCut - 2, SummaryCut - 1}

PrUrl(t) == <<"o","/">> \o t \o PullSep \o t

InitJql ==
    /\ \/ jq_key = DefaultKey /\ jq_text \in Texts /\ tracker \in {TrackerQuiet, TrackerDown}
       \/ jq_key \in Keys /\ jq_text \in ShortTexts /\ tracker \in {TrackerQuiet, TrackerDown}
       \/ jq_key = DefaultKey /\ jq_text \in ShaLikeTexts /\ tracker \in Trackers
    /\ jq_op = "none"
    /\ jq_args = <<>>
    /\ sent = <<>>
    /\ jq_raised = "none"
    /\ jq_result = <<>>
    /\ jq_created = <<>>
    /\ CommitIdle
    /\ SuggestIdle
    /\ BatchIdle
    /\ ScanIdle
    /\ RefIdle
    /\ ToolIdle
    /\ CacheIdle
    /\ PrioIdle
    /\ RouteIdle
    /\ StaleIdle

\* JiraClient.check_duplicate(summary, project_key, commit_shas)
CheckDuplicate ==
    /\ jq_op = "none"
    /\ \E pad \in PadLens :
        LET summary == Pad(pad) \o jq_text
            commit_shas == <<jq_text, HexSha>>
            v == ValidateProjectKey(jq_key)
        IN /\ jq_args' = [summary |-> summary, commit_shas |-> commit_shas]
           /\ IF v.ok
              THEN /\ sent' = CheckDuplicateQueries(v.key, summary, commit_shas)
                   /\ jq_raised' = "none"
                   /\ jq_result' = CheckDuplicateResult(summary, commit_shas, tracker)
              ELSE /\ sent' = <<>>
                   /\ jq_raised' = "ValueError"
                   /\ jq_result' = <<>>
    /\ jq_op' = "check_duplicate"
    /\ UNCHANGED <<jq_key, jq_text, tracker, jq_created>>
    /\ UNCHANGED <<commitVars, suggestVars, batchVars, scanVars, refVars, toolVars, cacheVars, prioVars, routeVars, staleVars>>

\* JiraClient.find_existing(project_key, repo_name, branch, pr_urls, commit_shas)
FindExisting ==
    /\ jq_op = "none"
    /\ \E branch \in {jq_text, <<"m","a","i","n">>} :
        LET pr_urls == <<PrUrl(jq_text)>>
            commit_shas == <<jq_text>>
            v == ValidateProjectKey(jq_key)
        IN /\ jq_args' = [repo_name |-> jq_text, branch |-> branch,
                          pr_urls |-> pr_urls, commit_shas |-> commit_shas]
           /\ IF v.ok
              THEN /\ sent' = FindExistingQueries(v.key, jq_text, branch,
                                                  pr_urls, commit_shas)
                   /\ jq_raised' = "none"
                   /\ jq_result' = FindExistingResult(jq_text, branch, pr_urls,
                                                      commit_shas, tracker)
              ELSE /\ sent' = <<>>
                   /\ jq_raised' = "ValueError"
                   /\ jq_result' = <<>>
    /\ jq_op' = "find_existing"
    /\ UNCHANGED <<jq_key, jq_text, tracker, jq_created>>
    /\ UNCHANGED <<commitVars, suggestVars, batchVars, scanVars, refVars, toolVars, cacheVars, prioVars, routeVars, staleVars>>

\* JiraClient.search_issues_safe(project_key, text, since); the tracker call
\* of search_issues is not guarded, so its failure leaves the call.
SearchIssuesSafe ==
    /\ jq_op = "none"
    /\ \E since \in {<<>>, SomeDate, jq_text} :
        LET v == ValidateProjectKey(jq_key)
            r == SearchIssuesResult("summary", DefaultMaxResultsSafe, tracker)
        IN /\ jq_args' = [text |-> jq_text, since |-> since]
           /\ IF v.ok
              THEN /\ sent' = SearchIssuesSafeQueries(v.key, jq_text, since)
                   /\ jq_raised' = IF r.raised THEN "JIRAError" ELSE "none"
                   /\ jq_result' = r.value
              ELSE /\ sent' = <<>>
                   /\ jq_raised' = "ValueError"
                   /\ jq_result' = <<>>
    /\ jq_op' = "search_issues_safe"
    /\ UNCHANGED <<jq_key, jq_text, tracker, jq_created>>
    /\ UNCHANGED <<commitVars, suggestVars, batchVars, scanVars, refVars, toolVars, cacheVars, prioVars, routeVars, staleVars>>

\* JiraClient.check_connection()
CheckConnection ==
    /\ jq_op = "none"
    /\ jq_op' = "check_connection"
    /\ jq_args' = <<>>
    /\ sent' = <<>>
    /\ jq_raised' = "none"
    /\ jq_result' = IF tracker.up THEN [connected |-> TRUE]
                    ELSE [connected |-> FALSE, error |-> "JIRAError"]
    /\ UNCHANGED <<jq_key, jq_text, tracker, jq_created>>
    /\ UNCHANGED <<commitVars, suggestVars, batchVars, scanVars, refVars, toolVars, cacheVars, prioVars, routeVars, staleVars>>

\* JiraClient.get_projects(): the tracker call is not guarded
GetProjects ==
    /\ jq_op = "none"
    /\ jq_op' = "get_projects"
    /\ jq_args' = <<>>
    /\ sent' = <<>>
    /\ jq_raised' = IF tracker.up THEN "none" ELSE "JIRAError"
    /\ jq_result' = IF tracker.up THEN <<[key |-> DefaultKey]>> ELSE <<>>
    /\ UNCHANGED <<jq_key, jq_text, tracker, jq_created>>
    /\ UNCHANGED <<commitVars, suggestVars, batchVars, scanVars, refVars, toolVars, cacheVars, prioVars, routeVars, staleVars>>

\* JiraClient.search_issues(jql, max_results): the caller's JQL goes to the
\* tracker as it is, and the tracker call is not guarded
SearchIssues ==
    /\ jq_op = "none"
    /\ jq_op' = "search_issues"
    /\ LET r == SearchIssuesResult("summary", DefaultMaxResults, tracker)
       IN /\ jq_raised' = IF r.raised THEN "JIRAError" ELSE "none"
          /\ jq_result' = r.value
    /\ jq_args' = [jql |-> jq_text]
    /\ sent' = <<[key |-> <<>>, texts |-> <<>>, raw |-> jq_text]>>
    /\ UNCHANGED <<jq_key, jq_text, tracker, jq_created>>
    /\ UNCHANGED <<commitVars, suggestVars, batchVars, scanVars, refVars, toolVars, cacheVars, prioVars, routeVars, staleVars>>

\* JiraClient.create_ticket(request)
CreateTicket ==
    /\ jq_op = "none"
    /\ jq_op' = "create_ticket"
    /\ jq_args' = [project_key |-> jq_key, summary |-> jq_text]
    /\ sent' = <<>>
    /\ jq_raised' = "none"
    /\ IF tracker.up
       THEN /\ jq_created' = Append(jq_created,
                                    [key |-> NewIssueKey, summary |-> jq_text])
            /\ jq_result' = [key |-> NewIssueKey, summary |-> jq_text,
                             duplicate |-> FALSE, error |-> NoError]
       ELSE /\ jq_created' = jq_created
            /\ jq_result' = [key |-> ErrorKey, summary |-> jq_text,
                             duplicate |-> FALSE, error |-> "JIRAError"]
    /\ UNCHANGED <<jq_key, jq_text, tracker>>
    /\ UNCHANGED <<commitVars, suggestVars, batchVars, scanVars, refVars, toolVars, cacheVars, prioVars, routeVars, staleVars>>

NextJql ==
    \/ CheckDuplicate
    \/ FindExisting
    \/ SearchIssuesSafe
    \/ CheckConnection
    \/ GetProjects
    \/ SearchIssues
    \/ CreateTicket

SpecJql == InitJql /\ [][NextJql]_vars

\* ---- claims about the queries ----
\* number of consecutive backslashes that end just before position i
BackslashRun(t, i) ==
    IF i = 1 \/ t[i - 1] # "\\" THEN 0
    ELSE LET others == {j \in 1..(i - 1) : t[j] # "\\"}
         IN IF others = {} THEN i - 1
            ELSE (i - 1) - (CHOOSE x \in others : \A y \in others : y <= x)

\* every quote is preceded by an odd run of backslashes (it is escaped) and
\* every other run of backslashes is even (made of escaped backslashes)
NoUnescaped(t) ==
    \A i \in 1..(Len(t) + 1) :
        \/ i <= Len(t) /\ t[i] = "\\"
        \/ IF i <= Len(t) /\ t[i] \in {"\"", "'"}
           THEN BackslashRun(t, i) % 2 = 1
           ELSE BackslashRun(t, i) % 2 = 0

ClaimKeywords ==
    { <<"A","N","D">>, <<"O","R">>, <<"N","O","T">>,
      <<"O","R","D","E","R"," ","B","Y">>, <<"I","N">>, <<"I","S">> }

HasStandaloneKeyword(t) ==
    \E i \in 1..Len(t) :
        /\ WordBoundary(t, i)
        /\ \E kw \in ClaimKeywords :
              /\ MatchesAtNoCase(t, i, kw)
              /\ WordBoundary(t, i + Len(kw))

SafeText(t) == NoUnescaped(t) /\ ~HasStandaloneKeyword(t)

\* C9: every text that check_duplicate, find_existing and search_issues_safe
\* embed between the quotes of a tracker query contains no unescaped double
\* quote, single quote or backslash and no standalone keyword token (AND, OR,
\* NOT, ORDER BY, IN, IS), including the summary search text that is cut to
\* 60 characters and sanitised a second time.
C9_QueryTextsSanitized ==
    \A i \in DOMAIN sent : \A j \in DOMAIN sent[i].texts :
        SafeText(sent[i].texts[j])

\* C9 witness: check_duplicate ran on a summary whose 60-character cut left
\* an unsafe text (a lone backslash or a keyword made by the cut) and the
\* summary query was sent.
C9_Witness ==
    /\ jq_op = "check_duplicate"
    /\ sent # <<>>
    /\ Len(SanitizeJqlText(jq_args.summary)) > SummaryCut
    /\ ~SafeText(SummarySearchText(jq_args.summary))

StrictKeyFormat(k) ==
    /\ Len(k) \in 2..10
    /\ k[1] \in UpperLetters
    /\ \A i \in 2..Len(k) : k[i] \in UpperLetters \cup DigitChars

\* C10 (as claimed): a project key that does not match the strict format is
\* rejected by the three operations before any query is sent, and every
\* project key interpolated into a query matches the format.
C10_MalformedKeyRejected ==
    jq_op \in {"check_duplicate", "find_existing", "search_issues_safe"} =>
        /\ ~StrictKeyFormat(jq_key) => (jq_raised = "ValueError" /\ sent = <<>>)
        /\ \A i \in DOMAIN sent : StrictKeyFormat(sent[i].key)

\* C10 (amended): a project key whose trimmed, upper-cased form does not
\* match the strict format is rejected with an error before any query is
\* sent, a key whose trimmed, upper-cased form matches is accepted, and every
\* project key interpolated into a query matches the format.
C10_NormalisedKeyValidated ==
    jq_op \in {"check_duplicate", "find_existing", "search_issues_safe"} =>
        /\ (jq_raised = "ValueError") <=> ~StrictKeyFormat(Upper(Strip(jq_key)))
        /\ jq_raised = "ValueError" => sent = <<>>
        /\ \A i \in DOMAIN sent : StrictKeyFormat(sent[i].key)

\* C10 witness: a key with a quote in it was rejected and nothing was sent.
C10_Witness ==
    /\ jq_op \in {"check_duplicate", "find_existing", "search_issues_safe"}
    /\ jq_raised = "ValueError"
    /\ \E i \in DOMAIN jq_key : jq_key[i] = "\""
    /\ sent = <<>>


\* C16: the result of check_duplicate carries a confidence that is "none"
\* exactly when there are no matches (is_duplicate false, existing_keys
\* empty), "high" when there are at least 2 matches or a 7-character
\* commit-SHA prefix appears in the summary of a match, and "medium" in
\* every other case; "low" is never produced.
C16_ResultCarriesConfidence ==
    (jq_op = "check_duplicate" /\ jq_raised = "none") =>
        /\ "confidence" \in DOMAIN jq_result
        /\ LET matches == CheckDuplicateMatches(jq_args.summary, jq_args.commit_shas, tracker)
               sha_seen == \E i \in DOMAIN matches, j \in DOMAIN jq_args.commit_shas :
                              /\ Len(jq_args.commit_shas[j]) >= ShaCut
                              /\ Contains(matches[i].summary,
                                          Take(jq_args.commit_shas[j], ShaCut))
           IN /\ jq_result.confidence \in {"none", "medium", "high"}
              /\ (jq_result.confidence = "none") <=>
                     (~jq_result.is_duplicate /\ jq_result.existing_keys = <<>>)
              /\ (jq_result.confidence = "high") <=> (Len(matches) >= 2 \/ sha_seen)

\* what check_duplicate does return: is_duplicate and existing_keys alone,
\* is_duplicate exactly when a key is listed
DuplicateResultFields ==
    (jq_op = "check_duplicate" /\ jq_raised = "none") =>
        /\ DOMAIN jq_result = {"is_duplicate", "existing_keys"}
        /\ jq_result.is_duplicate <=> jq_result.existing_keys # <<>>

TrackerOps ==
    {"check_connection", "get_projects", "search_issues", "check_duplicate",
     "find_existing", "create_ticket"}

\* the result is empty, false or marked with an error
SoftResult ==
    CASE jq_op = "check_connection" -> ~jq_result.connected /\ "error" \in DOMAIN jq_result
      [] jq_op = "create_ticket" -> jq_result.key = ErrorKey /\ jq_result.error # NoError
      [] jq_op = "check_duplicate" -> ~jq_result.is_duplicate
      [] OTHER -> jq_result = <<>>

\* C18: a tracker connectivity failure never raises out of a JiraClient
\* operation: when the tracker call fails, each of check_connection,
\* get_projects, search_issues, check_duplicate, find_existing and
\* create_ticket returns an empty, false or error-marked result instead of
\* propagating the exception.
C18_TrackerFailureNeverRaises ==
    (jq_op \in TrackerOps /\ ~tracker.up /\ jq_raised # "ValueError") =>
        /\ jq_raised = "none"
        /\ SoftResult

\* the same for the four operations that guard their tracker calls
TrackerFailureSoftWhenGuarded ==
    jq_op \in TrackerOps \ {"get_projects", "search_issues"} =>
        C18_TrackerFailureNeverRaises

(***************************************************************************)
(* Ticket Grouper (ticket_suggester.py)                                    *)
(***************************************************************************)
FeatureBranchSplit == 12    \* if len(branch_commits) > 12
SourceFilesCut == 50        \* source_files=files[:50]
ShortShaLen == 7            \* short_sha=commit.hexsha[:7]

\* Alternatives of the word patterns; "." in an alternative is the regular
\* expression dot (any character but a newline).
FIX_PATTERN ==
    { <<"f","i","x">>,
      <<"b","u","g">>,
      <<"p","a","t","c","h">>,
      <<"h","o","t","f","i","x">>,
      <<"r","e","s","o","l","v","e">> }

FEAT_PATTERN ==
    { <<"f","e","a","t">>,
      <<"f","e","a","t","u","r","e">>,
      <<"a","d","d">>,
      <<"i","m","p","l","e","m","e","n","t">>,
      <<"n","e","w">> }

CI_PATTERN ==
    { <<"c","i">>,
      <<"c","d">>,
      <<"p","i","p","e","l","i","n","e">>,
      <<"w","o","r","k","f","l","o","w">>,
      <<"d","e","p","l","o","y">>,
      <<"d","o","c","k","e","r">>,
      <<"c","o","n","t","a","i","n","e","r">>,
      <<"g","i","t","h","u","b",".","a","c","t","i","o","n">> }

TEST_PATTERN ==
    { <<"t","e","s","t">>,
      <<"s","p","e","c">>,
      <<"c","o","v","e","r","a","g","e">>,
      <<"j","e","s","t">>,
      <<"p","y","t","e","s","t">>,
      <<"u","n","i","t","t","e","s","t">> }

DOCS_PATTERN ==
    { <<"d","o","c">>,
      <<"d","o","c","s">>,
      <<"d","o","c","u","m","e","n","t","a","t","i","o","n">>,
      <<"r","e","a","d","m","e">>,
      <<"c","h","a","n","g","e","l","o","g">> }

\* one alternative matches at position i, ignoring case
AlternativeAt(t, i, p) ==
    /\ i + Len(p) - 1 <= Len(t)
    /\ \A k \in 1..Len(p) :
          IF p[k] = "." THEN t[i + k - 1] # "\n"
          ELSE ToLower(t[i + k - 1]) = ToLower(p[k])

\* re.compile(r"\b(a|b|...)\b", re.IGNORECASE).search(t)
PatternSearch(pattern, t) ==
    \E i \in 1..Len(t) :
        /\ WordBoundary(t, i)
        /\ \E p \in pattern :
              /\ AlternativeAt(t, i, p)
              /\ WordBoundary(t, i + Len(p))

AnyIn(words, t) == \E w \in words : Contains(t, w)

FrontendWords ==
    { <<"f","r","o","n","t","e","n","d">>,
      <<"u","i">>,
      <<"c","o","m","p","o","n","e","n","t">>,
      <<"t","s","x">> }

BackendWords ==
    { <<"b","a","c","k","e","n","d">>,
      <<"a","p","i">>,
      <<"s","e","r","v","i","c","e">>,
      <<"r","o","u","t","e">> }

AnsibleWords ==
    { <<"a","n","s","i","b","l","e">>,
      <<"p","l","a","y","b","o","o","k">>,
      <<"r","o","l","e">> }

ConfigWords ==
    { <<"c","o","n","f","i","g">>,
      <<"s","e","t","t","i","n","g","s">>,
      <<"e","n","v">> }

\* TicketSuggester._detect_area_from_message
DetectAreaFromMessage(message) ==
    LET msg_lower == Lower(message) IN
    IF PatternSearch(CI_PATTERN, message) THEN "ci-infra"
    ELSE IF PatternSearch(TEST_PATTERN, message) THEN "tests"
    ELSE IF PatternSearch(DOCS_PATTERN, message) THEN "docs"
    ELSE IF AnyIn(FrontendWords, msg_lower) THEN "frontend"
    ELSE IF AnyIn(BackendWords, msg_lower) THEN "backend"
    ELSE IF AnyIn(AnsibleWords, msg_lower) THEN "ansible"
    ELSE IF AnyIn(ConfigWords, msg_lower) THEN "config"
    ELSE "general"

\* the text of an area name, as it enters the id
AreaText(area) ==
    CASE area = "ci-infra" -> <<"c","i","-","i","n","f","r","a">>
      [] area = "tests" -> <<"t","e","s","t","s">>
      [] area = "docs" -> <<"d","o","c","s">>
      [] area = "frontend" -> <<"f","r","o","n","t","e","n","d">>
      [] area = "backend" -> <<"b","a","c","k","e","n","d">>
      [] area = "ansible" -> <<"a","n","s","i","b","l","e">>
      [] area = "config" -> <<"c","o","n","f","i","g">>
      [] area = "general" -> <<"g","e","n","e","r","a","l">>

\* TicketSuggester._infer_type_from_messages
InferTypeFromMessages(text) ==
    IF PatternSearch(FIX_PATTERN, text) THEN "Bug"
    ELSE IF PatternSearch(FEAT_PATTERN, text) THEN "Story"
    ELSE "Task"

\* TicketSuggester._infer_type_from_files
InferTypeFromFiles(files, change_types) ==
    IF \E i \in DOMAIN files : Contains(Lower(files[i]), <<"t","e","s","t">>) THEN "Task"
    ELSE IF \E i \in DOMAIN change_types : change_types[i] \in {"added", "A"}
         THEN "Story"
    ELSE "Task"

\* Bug variant: both totals must exceed their threshold.
InferPriorityBoth(file_count, insertions) ==
    IF file_count > 20 /\ insertions > 500 THEN "Critical"
    ELSE IF file_count > 10 /\ insertions > 200 THEN "Major"
    ELSE IF file_count > 3 THEN "Normal"
    ELSE "Minor"

\* TicketSuggester._infer_priority
InferPriority(file_count, insertions) ==
    IF file_count > 20 \/ insertions > 500 THEN "Critical"
    ELSE IF file_count > 10 \/ insertions > 200 THEN "Major"
    ELSE IF file_count > 3 THEN "Normal"
    ELSE "Minor"

\* "-".join(parts)
RECURSIVE JoinDash(_)
JoinDash(parts) ==
    IF parts = <<>> THEN <<>>
    ELSE IF Len(parts) = 1 THEN parts[1]
    ELSE parts[1] \o <<"-">> \o JoinDash(Tail(parts))

\* " ".join(parts)
RECURSIVE JoinSpace(_)
JoinSpace(parts) ==
    IF parts = <<>> THEN <<>>
    ELSE IF Len(parts) = 1 THEN parts[1]
    ELSE parts[1] \o <<" ">> \o JoinSpace(Tail(parts))

\* hashlib.sha256(raw.encode()).hexdigest()[:12]: the digest is a function of
\* the raw text alone; the model keeps the text it is a digest of.
Sha256Hex12(raw) == [digest_of |-> raw]

\* Bug variant: a digest salted per call (as the built-in hash() of a
\* process would be).
MakeIdSalted(parts) == [digest_of |-> JoinDash(parts), salt |-> calls]

\* TicketSuggester._make_id
MakeId(parts) == Sha256Hex12(JoinDash(parts))

\* dt.isocalendar() and f"{iso_year}-W{iso_week:02d}".  Day 0 of the model is
\* Monday 2024-12-30, the first day of ISO week 2025-W01; the dates of the
\* model stay inside ISO year 2025.
IsoWeek(day) == (day \div 7) + 1

DigitSeq == <<"0","1","2","3","4","5","6","7","8","9">>

TwoDigits(n) == <<DigitSeq[(n \div 10) + 1], DigitSeq[(n % 10) + 1]>>

WeekLabel(day) == <<"2","0","2","5","-","W">> \o TwoDigits(IsoWeek(day))

\* A dict is a sequence of entries [k, v] in insertion order.
DictKeys(d) == {d[i].k : i \in DOMAIN d}

\* d[k].extend(vs) on a defaultdict(list)
DictExtend(d, k, vs) ==
    IF k \in DictKeys(d)
    THEN [i \in DOMAIN d |->
            IF d[i].k = k THEN [k |-> k, v |-> d[i].v \o vs] ELSE d[i]]
    ELSE Append(d, [k |-> k, v |-> vs])

\* d[k] = v on a dict
DictSet(d, k, v) ==
    IF k \in DictKeys(d)
    THEN [i \in DOMAIN d |-> IF d[i].k = k THEN [k |-> k, v |-> v] ELSE d[i]]
    ELSE Append(d, [k |-> k, v |-> v])

\* default_branches of _extract_feature_branches
SuggesterDefaultBranches ==
    { <<"m","a","i","n">>, <<"m","a","s","t","e","r">>,
      <<"d","e","v","e","l","o","p","m","e","n","t">>,
      <<"d","e","v","e","l","o","p">> }

\* TicketSuggester._extract_feature_branches
BranchCommits(summary, name) ==
    SelectSeq(summary.recent_commits,
              LAMBDA c : c.jira_refs = <<>> /\ Contains(c.message, name))

RECURSIVE ExtractFeatureBranchesFrom(_, _, _)
ExtractFeatureBranchesFrom(summary, i, d) ==
    IF i > Len(summary.branches) THEN d
    ELSE LET name == summary.branches[i].name
             branch_commits == BranchCommits(summary, name)
         IN IF name \in SuggesterDefaultBranches \/ name = summary.current_branch
            THEN ExtractFeatureBranchesFrom(summary, i + 1, d)
            ELSE IF branch_commits # <<>>
                 THEN ExtractFeatureBranchesFrom(summary, i + 1,
                                                 DictSet(d, name, branch_commits))
                 ELSE ExtractFeatureBranchesFrom(summary, i + 1, d)

ExtractFeatureBranches(summary) == ExtractFeatureBranchesFrom(summary, 1, <<>>)

\* TicketSuggester._group_by_week: groups keyed by week label, sorted by
\* label.  For the fixed-width labels of one ISO year the order of the labels
\* is the order of the week numbers.
RECURSIVE SortByWeek(_)
SortByWeek(d) ==
    IF d = <<>> THEN <<>>
    ELSE LET i == CHOOSE x \in DOMAIN d : \A y \in DOMAIN d : d[x].week <= d[y].week
         IN <<d[i]>> \o SortByWeek([j \in 1..(Len(d) - 1) |->
                                       IF j < i THEN d[j] ELSE d[j + 1]])

RECURSIVE GroupByWeekFrom(_, _, _)
GroupByWeekFrom(commits, i, d) ==
    IF i > Len(commits) THEN d
    ELSE GroupByWeekFrom(commits, i + 1,
                         DictExtend(d, WeekLabel(commits[i].date), <<commits[i]>>))

GroupByWeek(commits) ==
    LET groups == GroupByWeekFrom(commits, 1, <<>>)
        keyed == [i \in DOMAIN groups |->
                    [k |-> groups[i].k, v |-> groups[i].v,
                     week |-> IsoWeek(groups[i].v[1].date)]]
        sorted == SortByWeek(keyed)
    IN [i \in DOMAIN sorted |-> [k |-> sorted[i].k, v |-> sorted[i].v]]

\* TicketSuggester._group_by_file_area
RECURSIVE GroupByAreaFrom(_, _, _)
GroupByAreaFrom(commits, i, d) ==
    IF i > Len(commits) THEN d
    ELSE GroupByAreaFrom(commits, i + 1,
                         DictExtend(d, DetectAreaFromMessage(commits[i].message),
                                    <<commits[i]>>))

RECURSIVE MergeSmallGroups(_, _, _)
MergeSmallGroups(groups, i, merged) ==
    IF i > Len(groups) THEN merged
    ELSE IF Len(groups[i].v) <= 1 /\ groups[i].k # "general"
         THEN MergeSmallGroups(groups, i + 1,
                               DictExtend(merged, "general", groups[i].v))
         ELSE MergeSmallGroups(groups, i + 1,
                               DictExtend(merged, groups[i].k, groups[i].v))

GroupByFileArea(commits) ==
    LET merged == MergeSmallGroups(GroupByAreaFrom(commits, 1, <<>>), 1, <<>>)
    IN IF merged # <<>> THEN merged ELSE <<[k |-> "general", v |-> commits]>>

SumOf(commits, F(_)) ==
    LET RECURSIVE Sum(_)
        Sum(i) == IF i > Len(commits) THEN 0 ELSE F(commits[i]) + Sum(i + 1)
    IN Sum(1)

PrUrlsFor(summary, branch) ==
    LET prs == SelectSeq(summary.pull_requests, LAMBDA pr : pr.branch = branch)
    IN [i \in DOMAIN prs |-> prs[i].url]

(***************************************************************************)
(* Ticket texts: summary and description of a candidate                    *)
(***************************************************************************)
\* the character U+0060 of the texts, written as a circumflex because a
\* string of the module cannot hold it; no operation modelled here treats
\* either character specially
Backtick == "^"

FirstMsgCut == 60           \* first_msg = ...[:60]
DescLineCut == 100          \* first_line = ...[:100]
DescCommitsCut == 15        \* for c in commits[:15]
DescFilesCut == 20          \* for f in files[:20]

\* str(n) of a natural number
RECURSIVE NatStr(_)
NatStr(n) ==
    IF n < 10 THEN <<DigitSeq[n + 1]>>
    ELSE NatStr(n \div 10) \o <<DigitSeq[(n % 10) + 1]>>

\* "\n".join(lines)
RECURSIVE JoinNewline(_)
JoinNewline(lines) ==
    IF lines = <<>> THEN <<>>
    ELSE IF Len(lines) = 1 THEN lines[1]
    ELSE lines[1] \o <<"\n">> \o JoinNewline(Tail(lines))

\* ", ".join(parts)
RECURSIVE JoinComma(_)
JoinComma(parts) ==
    IF parts = <<>> THEN <<>>
    ELSE IF Len(parts) = 1 THEN parts[1]
    ELSE parts[1] \o <<",", " ">> \o JoinComma(Tail(parts))

\* message.split("\n")[0]
FirstLine(message) == SplitFirst(message, <<"\n">>)

REFACTOR_PATTERN ==
    { <<"r","e","f","a","c","t","o","r">>,
      <<"c","l","e","a","n","u","p">>,
      <<"c","l","e","a","n"," ","u","p">>,
      <<"r","e","o","r","g","a","n","i","z","e">>,
      <<"r","e","s","t","r","u","c","t","u","r","e">> }

\* the conventional-commit prefixes of _extract_theme, in the order of the
\* elif chain, with the theme each one counts for
ThemePrefixes ==
    << [prefix |-> <<"f","e","a","t">>, theme |-> <<"F","e","a","t","u","r","e"," ","d","e","v","e","l","o","p","m","e","n","t">>],
       [prefix |-> <<"f","i","x">>, theme |-> <<"B","u","g"," ","f","i","x","e","s">>],
       [prefix |-> <<"r","e","f","a","c","t","o","r">>, theme |-> <<"R","e","f","a","c","t","o","r","i","n","g">>],
       [prefix |-> <<"d","o","c","s">>, theme |-> <<"D","o","c","u","m","e","n","t","a","t","i","o","n"," ","u","p","d","a","t","e","s">>],
       [prefix |-> <<"t","e","s","t">>, theme |-> <<"T","e","s","t"," ","i","m","p","r","o","v","e","m","e","n","t","s">>],
       [prefix |-> <<"c","h","o","r","e">>, theme |-> <<"M","a","i","n","t","e","n","a","n","c","e">>],
       [prefix |-> <<"c","i">>, theme |-> <<"C","I","/","C","D"," ","u","p","d","a","t","e","s">>] >>

\* the theme a first line counts for, <<>> when it has none of the prefixes
PrefixTheme(first_line) ==
    LET hits == {i \in DOMAIN ThemePrefixes :
                    MatchesAt(Lower(first_line), 1, ThemePrefixes[i].prefix)}
    IN IF hits = {} THEN <<>>
       ELSE ThemePrefixes[CHOOSE x \in hits : \A y \in hits : x <= y].theme

\* prefix_counts: a dict of counts in insertion order
RECURSIVE PrefixCountsFrom(_, _, _)
PrefixCountsFrom(commits, i, d) ==
    IF i > Len(commits) THEN d
    ELSE LET theme == PrefixTheme(FirstLine(commits[i].message))
             seen == {j \in DOMAIN d : d[j].k = theme}
         IN PrefixCountsFrom(commits, i + 1,
                IF theme = <<>> THEN d
                ELSE IF seen = {} THEN Append(d, [k |-> theme, v |-> 1])
                ELSE [j \in DOMAIN d |->
                         IF j \in seen THEN [k |-> theme, v |-> d[j].v + 1] ELSE d[j]])

\* max(prefix_counts, key=...): the first key, in insertion order, of the
\* largest count
Dominant(d) ==
    d[CHOOSE x \in DOMAIN d :
          /\ \A y \in DOMAIN d : d[y].v <= d[x].v
          /\ \A y \in 1..(x - 1) : d[y].v < d[x].v]

\* TicketSuggester._extract_theme
ExtractTheme(commits) ==
    LET all_messages == JoinSpace([i \in DOMAIN commits |-> FirstLine(commits[i].message)])
        prefix_counts == PrefixCountsFrom(commits, 1, <<>>)
    IN IF prefix_counts # <<>> /\ 2 * Dominant(prefix_counts).v >= Len(commits)
       THEN Dominant(prefix_counts).k
       ELSE IF PatternSearch(FEAT_PATTERN, all_messages) THEN <<"F","e","a","t","u","r","e"," ","d","e","v","e","l","o","p","m","e","n","t">>
       ELSE IF PatternSearch(FIX_PATTERN, all_messages) THEN <<"B","u","g"," ","f","i","x","e","s"," ","a","n","d"," ","p","a","t","c","h","e","s">>
       ELSE IF PatternSearch(REFACTOR_PATTERN, all_messages) THEN <<"C","o","d","e"," ","r","e","f","a","c","t","o","r","i","n","g">>
       ELSE <<>>

\* TicketSuggester._build_summary
BuildSummary(repo_name, commits, context, area) ==
    LET theme == ExtractTheme(commits)
        qualifiers == (IF area # "" /\ area # "general" THEN <<AreaText(area)>> ELSE <<>>)
                      \o (IF context # <<>> THEN <<context>> ELSE <<>>)
    IN JoinSpace(
           << <<"[">> \o repo_name \o <<"]">> >>
           \o (IF theme # <<>> THEN <<theme>>
               ELSE <<Take(FirstLine(commits[1].message), FirstMsgCut)>>)
           \o (IF Len(commits) > 1
               THEN << <<"(","+">> \o NatStr(Len(commits) - 1) \o <<" ","c","o","m","m","i","t","s",")">> >>
               ELSE <<>>)
           \o (IF qualifiers # <<>>
               THEN << <<"[">> \o JoinComma(qualifiers) \o <<"]">> >>
               ELSE <<>>))

\* The calendar of the model: day 0 is Monday 2024-12-30, the days from 2 on
\* are the days of 2025.
MonthLengths == <<31, 28, 31, 30, 31, 30, 31, 31, 30, 31, 30, 31>>

MonthAbbr ==
    << <<"J","a","n">>, <<"F","e","b">>, <<"M","a","r">>, <<"A","p","r">>, <<"M","a","y">>, <<"J","u","n">>,
       <<"J","u","l">>, <<"A","u","g">>, <<"S","e","p">>, <<"O","c","t">>, <<"N","o","v">>, <<"D","e","c">> >>

RECURSIVE MonthOf(_, _)
MonthOf(day_of_year, m) ==
    IF m = 12 \/ day_of_year <= MonthLengths[m]
    THEN [year |-> <<"2","0","2","5">>, month |-> m, day |-> day_of_year]
    ELSE MonthOf(day_of_year - MonthLengths[m], m + 1)

Calendar(day) ==
    IF day < 2 THEN [year |-> <<"2","0","2","4">>, month |-> 12, day |-> 30 + day]
    ELSE MonthOf(day - 1, 1)

\* dt.strftime("%Y-%m-%d")
DateStr(day) ==
    LET d == Calendar(day)
    IN d.year \o <<"-">> \o TwoDigits(d.month) \o <<"-">> \o TwoDigits(d.day)

\* dt.strftime("%b %d")
MonthDayStr(day) ==
    LET d == Calendar(day) IN MonthAbbr[d.month] \o <<" ">> \o TwoDigits(d.day)

\* int(text) of a text of decimal digits; -1 stands for the ValueError
RECURSIVE ParseNat(_)
ParseNat(t) ==
    IF t = <<>> \/ \E i \in DOMAIN t : t[i] \notin DigitChars THEN -1
    ELSE IF Len(t) = 1 THEN (CHOOSE k \in 0..9 : DigitSeq[k + 1] = t[1])
    ELSE 10 * ParseNat(SubSeq(t, 1, Len(t) - 1))
         + (CHOOSE k \in 0..9 : DigitSeq[k + 1] = t[Len(t)])

\* TicketSuggester._week_label_to_range, for the labels of ISO year 2025
WeekLabelToRange(week_label) ==
    LET parts == Split(week_label, <<"-", "W">>)
        week == IF Len(parts) = 2 THEN ParseNat(parts[2]) ELSE -1
        monday == 7 * (week - 1)
    IN IF Len(parts) # 2 \/ ParseNat(parts[1]) # 2025 \/ week < 1 \/ week > 52
       THEN <<>>
       ELSE MonthDayStr(monday) \o <<" ","-"," ">> \o MonthDayStr(monday + 6)
            \o <<",", " ">> \o Calendar(monday + 6).year

\* context.replace("week-", "")
RECURSIVE RemoveWeekPrefix(_)
RemoveWeekPrefix(t) ==
    IF t = <<>> THEN <<>>
    ELSE IF MatchesAt(t, 1, <<"w","e","e","k","-">>) THEN RemoveWeekPrefix(Drop(t, 5))
    ELSE <<t[1]>> \o RemoveWeekPrefix(Tail(t))

\* TicketSuggester._build_description, joined with "\n" as _build_ticket does
BuildDescription(repo_name, branch, commits, context, area, total_files) ==
    LET week_range == WeekLabelToRange(RemoveWeekPrefix(context))
        shown == Take(commits, DescCommitsCut)
    IN JoinNewline(
           << <<"W","o","r","k"," ","o","n"," ","*","*">> \o repo_name \o <<"*","*",","," ","b","r","a","n","c","h"," ">> \o <<Backtick>> \o branch \o <<Backtick>> \o <<".">> >>
           \o (IF context # <<>> /\ week_range # <<>>
               THEN << <<"P","e","r","i","o","d",":"," ">> \o week_range >> ELSE <<>>)
           \o (IF area # "" /\ area # "general"
               THEN << <<"A","r","e","a",":"," ","*","*">> \o AreaText(area) \o <<"*","*">> >> ELSE <<>>)
           \o << <<>>,
                 <<"*","*">> \o NatStr(Len(commits)) \o <<" ","c","o","m","m","i","t","(","s",")",","," ">> \o NatStr(total_files)
                     \o <<" ","f","i","l","e","(","s",")"," ","c","h","a","n","g","e","d",":","*","*">>,
                 <<>> >>
           \o [i \in DOMAIN shown |->
                  <<"-"," ">> \o <<Backtick>> \o shown[i].short_sha \o <<Backtick>> \o <<" ","(">> \o DateStr(shown[i].date) \o <<")"," ">>
                      \o Take(FirstLine(shown[i].message), DescLineCut)]
           \o (IF Len(commits) > DescCommitsCut
               THEN << <<"-"," ",".",".","."," ","a","n","d"," ">> \o NatStr(Len(commits) - DescCommitsCut)
                           \o <<" ","m","o","r","e"," ","c","o","m","m","i","t","s">> >>
               ELSE <<>>))

\* description of _uncommitted_ticket (lines 254-262)
UncommittedDescription(summary, files) ==
    LET shown == Take(files, DescFilesCut)
    IN JoinNewline(
           << <<"U","n","c","o","m","m","i","t","t","e","d"," ","w","o","r","k"," ","i","n"," ","*","*">> \o summary.repo_name \o <<"*","*"," ","o","n"," ","b","r","a","n","c","h"," ">> \o <<Backtick>>
                  \o summary.current_branch \o <<Backtick>> \o <<".">>,
              <<>>,
              <<"*","*">> \o NatStr(Len(files)) \o <<" ","f","i","l","e","(","s",")"," ","c","h","a","n","g","e","d",":","*","*">> >>
           \o [i \in DOMAIN shown |-> <<"-"," ">> \o <<Backtick>> \o shown[i] \o <<Backtick>>]
           \o (IF Len(files) > DescFilesCut
               THEN << <<"-"," ",".",".","."," ","a","n","d"," ">> \o NatStr(Len(files) - DescFilesCut) \o <<" ","m","o","r","e">> >>
               ELSE <<>>))

\* TicketSuggester._uncommitted_ticket
UncommittedTicket(summary, project_key) ==
    LET u == summary.uncommitted
        files == [i \in DOMAIN u.staged |-> u.staged[i].path]
                 \o [i \in DOMAIN u.unstaged |-> u.unstaged[i].path]
                 \o u.untracked
        change_types == [i \in DOMAIN u.staged |-> u.staged[i].change_type]
                        \o [i \in DOMAIN u.unstaged |-> u.unstaged[i].change_type]
    IN [id |-> MakeId(<<summary.repo_name,
                        <<"u","n","c","o","m","m","i","t","t","e","d">> >>),
        summary |-> <<"[">> \o summary.repo_name \o <<"]"," ","U","n","c","o","m","m","i","t","t","e","d"," ","w","o","r","k"," ","o","n"," ">>
                        \o summary.current_branch,
        description |-> UncommittedDescription(summary, files),
        issue_type |-> InferTypeFromFiles(files, change_types),
        priority |-> InferPriority(Len(files), 0),
        pr_urls |-> PrUrlsFor(summary, summary.current_branch),
        project_key |-> project_key,
        source_repo |-> summary.repo_name,
        source_branch |-> summary.current_branch,
        source_commits |-> <<>>,
        source_files |-> Take(files, SourceFilesCut)]

\* TicketSuggester._build_ticket; context and area are "" (<<>>) when absent
BuildTicket(summary, branch, commits, project_key, context, area) ==
    LET all_messages == JoinSpace([i \in DOMAIN commits |-> commits[i].message])
        total_files == SumOf(commits, LAMBDA c : c.files_changed)
        total_insertions == SumOf(commits, LAMBDA c : c.insertions)
        id_parts == <<summary.repo_name, branch>>
                    \o (IF context # <<>> THEN <<context>> ELSE <<>>)
                    \o (IF area # "" THEN <<AreaText(area)>> ELSE <<>>)
    IN [id |-> MakeId(id_parts),
        summary |-> BuildSummary(summary.repo_name, commits, context, area),
        description |-> BuildDescription(summary.repo_name, branch, commits, context,
                                         area, total_files),
        issue_type |-> InferTypeFromMessages(all_messages),
        priority |-> InferPriority(total_files, total_insertions),
        pr_urls |-> PrUrlsFor(summary, branch),
        project_key |-> project_key,
        source_repo |-> summary.repo_name,
        source_branch |-> branch,
        source_commits |-> [i \in DOMAIN commits |-> commits[i].short_sha],
        source_files |-> <<>>]

WeekContext(label) == <<"w","e","e","k","-">> \o label

\* tickets of one feature branch (suggest, Group 2)
FeatureBranchTickets(summary, entry, project_key) ==
    IF Len(entry.v) > FeatureBranchSplit
    THEN LET weekly == GroupByWeek(entry.v)
         IN [i \in DOMAIN weekly |->
                BuildTicket(summary, entry.k, weekly[i].v, project_key,
                            WeekContext(weekly[i].k), "")]
    ELSE <<BuildTicket(summary, entry.k, entry.v, project_key, <<>>, "")>>

\* tickets of one week of the remaining commits (suggest, Group 3)
WeekTickets(summary, week, project_key) ==
    LET area_groups == GroupByFileArea(week.v)
        kept == IF Len(area_groups) = 1 THEN area_groups
                ELSE SelectSeq(area_groups, LAMBDA g : Len(g.v) # 0)
    IN [i \in DOMAIN kept |->
           BuildTicket(summary, summary.current_branch, kept[i].v, project_key,
                       WeekContext(week.k), kept[i].k)]

\* Bug variant: the commits that carry an issue key are kept.
UntrackedCommitsAll(summary) == summary.recent_commits

\* untracked_commits of suggest (lines 60-62)
UntrackedCommits(summary) ==
    SelectSeq(summary.recent_commits, LAMBDA c : c.jira_refs = <<>>)

\* Bug variant: the summary is skipped before the uncommitted work is looked
\* at when it has no untracked commit.
SuggestForSummarySkipsEarly(summary, project_key) ==
    IF SelectSeq(summary.recent_commits, LAMBDA c : c.jira_refs = <<>>) = <<>>
    THEN <<>>
    ELSE <<UncommittedTicket(summary, project_key)>>

\* body of the loop of TicketSuggester.suggest for one summary
SuggestForSummary(summary, project_key) ==
    LET u == summary.uncommitted
        uncommitted_part ==
            IF u.staged # <<>> \/ u.unstaged # <<>> \/ u.untracked # <<>>
            THEN <<UncommittedTicket(summary, project_key)>> ELSE <<>>
        untracked_commits == UntrackedCommits(summary)
        feature_branches == ExtractFeatureBranches(summary)
        remaining ==
            SelectSeq(untracked_commits,
                      LAMBDA c : \A i \in DOMAIN feature_branches :
                                    \A j \in DOMAIN feature_branches[i].v :
                                        feature_branches[i].v[j].sha # c.sha)
        weekly_groups == GroupByWeek(remaining)
    IN IF untracked_commits = <<>> THEN uncommitted_part
       ELSE uncommitted_part
            \o Concat([i \in DOMAIN feature_branches |->
                          FeatureBranchTickets(summary, feature_branches[i],
                                               project_key)])
            \o (IF remaining = <<>> THEN <<>>
                ELSE Concat([i \in DOMAIN weekly_groups |->
                                WeekTickets(summary, weekly_groups[i],
                                            project_key)]))

\* TicketSuggester.suggest
Suggest(summaries, project_key) ==
    Concat([i \in DOMAIN summaries |-> SuggestForSummary(summaries[i], project_key)])


(***************************************************************************)
(* Issue-key extraction (git_analyzer.py, JIRA_REF_PATTERN)                *)
(***************************************************************************)
\* last position of the longest run of characters of S that starts at i
\* (i - 1 when t[i] is not in S)
RunEnd(t, i, S) ==
    LET stops == {j \in i..(Len(t) + 1) : j > Len(t) \/ t[j] \notin S}
    IN (CHOOSE x \in stops : \A y \in stops : x <= y) - 1

\* last position of the match of [A-Z][A-Z0-9]+-\d+ at i, 0 when none
JiraRefEnd(t, i) ==
    IF i > Len(t) \/ t[i] \notin UpperLetters THEN 0
    ELSE LET e == RunEnd(t, i + 1, UpperLetters \cup DigitChars)
             f == RunEnd(t, e + 2, DigitChars)
         IN IF e >= i + 1 /\ e + 1 <= Len(t) /\ t[e + 1] = "-" /\ f >= e + 2
            THEN f ELSE 0

\* JIRA_REF_PATTERN.findall(t)
RECURSIVE FindJiraRefsFrom(_, _)
FindJiraRefsFrom(t, i) ==
    LET starts == {j \in i..Len(t) : JiraRefEnd(t, j) > 0}
    IN IF starts = {} THEN <<>>
       ELSE LET j == CHOOSE x \in starts : \A y \in starts : x <= y
            IN <<SubSeq(t, j, JiraRefEnd(t, j))>>
               \o FindJiraRefsFrom(t, JiraRefEnd(t, j) + 1)

FindJiraRefs(t) == FindJiraRefsFrom(t, 1)

(***************************************************************************)
(* Ticket Grouper: inputs and calls                                        *)
(***************************************************************************)
MaxCommitsIn == 3   \* commits of a work summary
MaxRuns == 2        \* calls of suggest on the same input
MaxClock == 1       \* the clock advances at most this far

\* CommitInfo as _get_recent_commits builds it
Commit(sha, message, date, files_changed, insertions) ==
    [sha |-> sha, short_sha |-> Take(sha, ShortShaLen), message |-> message,
     date |-> date, files_changed |-> files_changed, insertions |-> insertions,
     jira_refs |-> FindJiraRefs(message)]

BranchMain == <<"m","a","i","n">>

BranchFb1 == <<"f","b","-","1">>

BranchFb2 == <<"f","b","-","2">>

CommitPool ==
    { Commit(<<"1","a","1","b","1","c","1","d","1","e">>, <<"f","e","a","t",":"," ","a","d","d"," ","X">>, 0, 2, 10),
      Commit(<<"2","a","2","b","2","c","2","d","2","e">>, <<"f","e","a","t",":"," ","a","d","d"," ","Y">>, 1, 2, 10),
      Commit(<<"3","a","3","b","3","c","3","d","3","e">>, <<"f","i","x",":"," ","t","y","p","o">>, 2, 1, 1),
      Commit(<<"4","a","4","b","4","c","4","d","4","e">>, <<"M","e","r","g","e"," ","f","b","-","1"," ","i","n","t","o"," ","f","b","-","2">>, 3, 4, 40),
      Commit(<<"5","a","5","b","5","c","5","d","5","e">>, <<"P","R","O","J","-","1"," ","a","d","d"," ","a","p","i">>, 4, 3, 30),
      Commit(<<"6","a","6","b","6","c","6","d","6","e">>, <<"u","p","d","a","t","e"," ","a","p","i"," ","r","o","u","t","e">>, 8, 5, 300),
      Commit(<<"7","a","7","b","7","c","7","d","7","e">>, <<"a","p","i"," ","c","l","e","a","n","u","p">>, 9, 12, 20) }

IsInjective(s) == \A i, j \in DOMAIN s : s[i] = s[j] => i = j

\* recent_commits in the order of the history walk of a linear history
NewestFirst(cs) == \A i \in 1..(Len(cs) - 1) : cs[i].date > cs[i + 1].date

\* the shorter lists in every order, the longest ones newest first
CommitLists ==
    {cs \in SeqsUpTo(CommitPool, MaxCommitsIn) :
        /\ IsInjective(cs)
        /\ Len(cs) = MaxCommitsIn => NewestFirst(cs)}

Branch(name) == [name |-> name]

BranchConfigs ==
    { [current_branch |-> BranchMain, branches |-> <<Branch(BranchMain)>>],
      [current_branch |-> BranchMain,
       branches |-> <<Branch(BranchMain), Branch(BranchFb1)>>],
      [current_branch |-> BranchMain,
       branches |-> <<Branch(BranchMain), Branch(BranchFb1), Branch(BranchFb2)>>],
      [current_branch |-> BranchFb1,
       branches |-> <<Branch(BranchMain), Branch(BranchFb1), Branch(BranchFb2)>>] }

NoChanges == [staged |-> <<>>, unstaged |-> <<>>, untracked |-> <<>>]

SomeChanges ==
    [staged |-> <<[path |-> <<"a",".","p","y">>, change_type |-> "added"]>>,
     unstaged |-> <<>>,
     untracked |-> <<<<"t",".","t","x","t">>>>]

OnlyUnstaged ==
    [staged |-> <<>>,
     unstaged |-> <<[path |-> <<"b",".","p","y">>, change_type |-> "modified"]>>,
     untracked |-> <<>>]

OnlyUntracked ==
    [staged |-> <<>>, unstaged |-> <<>>, untracked |-> <<<<"t",".","t","x","t">>>>]

SomePullRequests == <<[url |-> <<"o","/","r","/","p","u","l","l","/","7">>, branch |-> BranchFb1]>>

WorkSummary(repo_name, cfg, uncommitted, commits) ==
    [repo_name |-> repo_name, repo_path |-> <<"/","r","/">> \o repo_name,
     current_branch |-> cfg.current_branch,
     uncommitted |-> uncommitted, recent_commits |-> commits,
     branches |-> cfg.branches, pull_requests |-> SomePullRequests]

RepoA == <<"r","e","p","o","-","a">>

RepoB == <<"r","e","p","o","-","b">>

Summaries ==
    {WorkSummary(RepoA, cfg, NoChanges, cs) : cfg \in BranchConfigs, cs \in CommitLists}
        \cup {WorkSummary(RepoA, cfg, SomeChanges, cs) :
                  cfg \in BranchConfigs, cs \in {x \in CommitLists : Len(x) <= 2}}
        \cup {WorkSummary(RepoA, cfg, u, cs) :
                  cfg \in BranchConfigs, u \in {OnlyUnstaged, OnlyUntracked},
                  cs \in {x \in CommitLists : Len(x) <= 1}}

\* a second repository, for the calls with two summaries
OtherSummary ==
    WorkSummary(RepoB, CHOOSE cfg \in BranchConfigs : Len(cfg.branches) = 1,
                SomeChanges, <<>>)

SummaryLists ==
    {<<s>> : s \in Summaries}
        \cup {<<s, OtherSummary>> : s \in {x \in Summaries : Len(x.recent_commits) <= 1}}

InitSuggest ==
    /\ sg_summaries \in SummaryLists
    /\ sg_project = DefaultKey
    /\ runs = <<>>
    /\ calls = 0
    /\ clock = 0
    /\ CommitIdle
    /\ JqlIdle
    /\ BatchIdle
    /\ ScanIdle
    /\ RefIdle
    /\ ToolIdle
    /\ CacheIdle
    /\ PrioIdle
    /\ RouteIdle
    /\ StaleIdle

\* one call of TicketSuggester.suggest(summaries, project_key)
SuggestCall ==
    /\ Len(runs) < MaxRuns
    /\ runs' = Append(runs, [at |-> clock, out |-> Suggest(sg_summaries, sg_project)])
    /\ calls' = calls + 1
    /\ UNCHANGED <<sg_summaries, sg_project, clock>>
    /\ UNCHANGED <<commitVars, jqlVars, batchVars, scanVars, refVars, toolVars, cacheVars, prioVars, routeVars, staleVars>>

\* time passes between calls
Tick ==
    /\ clock < MaxClock
    /\ clock' = clock + 1
    /\ UNCHANGED <<sg_summaries, sg_project, runs, calls>>
    /\ UNCHANGED <<commitVars, jqlVars, batchVars, scanVars, refVars, toolVars, cacheVars, prioVars, routeVars, staleVars>>

NextSuggest == SuggestCall \/ Tick

SpecSuggest == InitSuggest /\ [][NextSuggest]_vars

\* ---- claims about suggest ----
Ids(out) == [i \in DOMAIN out |-> out[i].id]

CandidatesOf(out, repo_name, short_sha) ==
    {i \in DOMAIN out :
        /\ out[i].source_repo = repo_name
        /\ short_sha \in Range(out[i].source_commits)}

\* C7: the Ticket Grouper partitions the untracked commits of a repository:
\* each commit of recent_commits without issue-key reference appears in the
\* source commits of exactly one commit-based candidate returned by suggest.
C7_UntrackedCommitsPartitioned ==
    \A r \in DOMAIN runs : \A k \in DOMAIN sg_summaries :
        \A n \in DOMAIN sg_summaries[k].recent_commits :
            LET c == sg_summaries[k].recent_commits[n] IN
            c.jira_refs = <<>> =>
                Cardinality(CandidatesOf(runs[r].out, sg_summaries[k].repo_name,
                                         c.short_sha)) = 1

FeatFixMessages == {<<"f","e","a","t",":"," ","a","d","d"," ","X">>, <<"f","e","a","t",":"," ","a","d","d"," ","Y">>, <<"f","i","x",":"," ","t","y","p","o">>}

\* C8: a repository with no uncommitted changes and three untracked commits
\* of the same week with messages `feat: add X`, `feat: add Y`, `fix: typo`
\* yields exactly one candidate, with issue type Story (feat gives Story,
\* fix gives Bug, otherwise Task) and three source commits.
C8_FeatFixScenarioIsStory ==
    \A r \in DOMAIN runs :
        ( /\ Len(sg_summaries) = 1
          /\ sg_summaries[1].uncommitted = NoChanges
          /\ Len(sg_summaries[1].recent_commits) = 3
          /\ {c.message : c \in Range(sg_summaries[1].recent_commits)} = FeatFixMessages )
        => /\ Len(runs[r].out) = 1
           /\ runs[r].out[1].issue_type = "Story"
           /\ Len(runs[r].out[1].source_commits) = 3


(***************************************************************************)
(* History Miner: work summary of a repository (git_analyzer.py)           *)
(***************************************************************************)
DefaultMaxCommits == 30     \* get_work_summary(max_commits=30)
DefaultSinceDays == 30      \* get_work_summary(since_days=30)
AnalysisDay == 100          \* the day on which the batch runs

PathAlpha == <<"/","r","/","a","l","p","h","a">>

PathBeta == <<"/","r","/","b","e","t","a">>

PathGone == <<"/","r","/","g","o","n","e">>

PathBetaSlash == PathBeta \o <<"/">>

\* str(Path(repo_path).expanduser()) for an absolute path without "~", "."
\* or doubled separators: the trailing separators are dropped
RECURSIVE PathStr(_)
PathStr(p) ==
    IF Len(p) > 1 /\ p[Len(p)] = "/" THEN PathStr(SubSeq(p, 1, Len(p) - 1)) ELSE p

\* Path.name: the last component
PathName(p) == SplitLast(PathStr(p), <<"/">>)

RawCommit(sha, message, committed_date, files_changed, insertions) ==
    [sha |-> sha, message |-> message, committed_date |-> committed_date,
     files_changed |-> files_changed, insertions |-> insertions]

\* repo.active_branch.name: main, or fb-1 once `git checkout -B fb-1` ran in
\* the repository
ActiveBranch(path) ==
    IF PathStr(path) \in ch_switched THEN BranchFb1 ELSE BranchMain

\* The repositories on disk: what Repo(path) finds.  PathGone is not a
\* repository, so Repo(path) raises there.
RepoAt(path) ==
    CASE PathStr(path) = PathAlpha ->
            [is_repo |-> TRUE, active_branch |-> ActiveBranch(path),
             uncommitted |-> NoChanges,
             branches |-> <<Branch(BranchMain), Branch(BranchFb1)>>,
             pull_requests |-> SomePullRequests,
             walk |-> << RawCommit(<<"6","a","6","b","6","c","6","d","6","e">>, <<"u","p","d","a","t","e"," ","a","p","i"," ","r","o","u","t","e">>, 99, 5, 300),
                         RawCommit(<<"8","a","8","b","8","c","8","d","8","e">>, <<"M","e","r","g","e"," ","f","b","-","1">>, 98, 1, 5),
                         RawCommit(<<"5","a","5","b","5","c","5","d","5","e">>, <<"P","R","O","J","-","1"," ","a","d","d"," ","a","p","i">>, 60, 3, 30) >>]
      [] PathStr(path) = PathBeta ->
            [is_repo |-> TRUE, active_branch |-> ActiveBranch(path),
             uncommitted |-> SomeChanges,
             branches |-> IF ActiveBranch(path) = BranchFb1
                          THEN <<Branch(BranchMain), Branch(BranchFb1)>>
                          ELSE <<Branch(BranchMain)>>,
             pull_requests |-> <<>>,
             walk |-> << RawCommit(<<"1","a","1","b","1","c","1","d","1","e">>, <<"f","e","a","t",":"," ","a","d","d"," ","X">>, 97, 2, 10) >>]
      [] OTHER -> [is_repo |-> FALSE]

\* CommitInfo of a commit of the walk (_get_recent_commits, lines 211-229)
CommitInfoOf(c) ==
    [sha |-> c.sha, short_sha |-> Take(c.sha, ShortShaLen),
     message |-> Strip(c.message), date |-> c.committed_date,
     files_changed |-> c.files_changed, insertions |-> c.insertions,
     jira_refs |-> FindJiraRefs(c.message)]

\* GitAnalyzer.get_work_summary; [raised |-> TRUE] stands for the exception
\* of Repo(path)
GetWorkSummary(path, maxc, sinced, today) ==
    LET repo == RepoAt(path) IN
    IF ~repo.is_repo THEN [raised |-> TRUE]
    ELSE LET recent == GetRecentCommits(repo.walk, maxc, sinced, today)
         IN [raised |-> FALSE,
             value |-> [repo_name |-> PathName(path),
                        repo_path |-> PathStr(path),
                        current_branch |-> repo.active_branch,
                        uncommitted |-> repo.uncommitted,
                        recent_commits |-> [i \in DOMAIN recent |-> CommitInfoOf(recent[i])],
                        branches |-> repo.branches,
                        pull_requests |-> repo.pull_requests]]

(***************************************************************************)
(* History Miner cache.  get_work_summary_cached and clear_cache are       *)
(* called by the routes but not defined in git_analyzer.py; they are       *)
(* modelled from the specification: a process-wide cache keyed by          *)
(* (repoPath, maxCommits, sinceDays) with a TTL.                           *)
(***************************************************************************)
CacheKey(path, maxc, sinced) == <<path, maxc, sinced>>

CacheHit(c, key, t, ttl) ==
    {e \in c : e.key = key /\ t - e.stored_at < ttl}

\* result and new cache of get_work_summary_cached
GetWorkSummaryCached(c, path, maxc, sinced, today, t, ttl) ==
    LET key == CacheKey(path, maxc, sinced)
        hit == CacheHit(c, key, t, ttl)
        fresh == GetWorkSummary(path, maxc, sinced, today)
    IN IF hit # {}
       THEN [result |-> [raised |-> FALSE, value |-> (CHOOSE e \in hit : TRUE).value],
             cache |-> c]
       ELSE IF fresh.raised THEN [result |-> fresh, cache |-> c]
       ELSE [result |-> fresh,
             cache |-> {e \in c : e.key # key}
                          \cup {[key |-> key, value |-> fresh.value, stored_at |-> t]}]

(***************************************************************************)
(* Batch analysis route (routes/folders.py, analyze_folders)               *)
(***************************************************************************)
max_parallel_workers == 10      \* Settings.max_parallel_workers
cache_ttl_seconds == 300        \* Settings.cache_ttl_seconds
MaxPaths == 3                   \* longest list of paths of a request

None == [none |-> TRUE]

\* the placeholder of analyze_repo's except branch
Placeholder(path) ==
    [repo_name |-> SplitLast(path, <<"/">>), repo_path |-> path,
     current_branch |-> <<"e","r","r","o","r">>, uncommitted |-> NoChanges,
     recent_commits |-> <<>>, branches |-> <<>>, pull_requests |-> <<>>]

\* Bug variant: analyze_repo without the try/except.
AnalyzeRepoUnguarded(r, path) == r

\* analyze_repo(path), given the outcome r of analyze_func: the exception is
\* converted into the placeholder
AnalyzeRepo(r, path) ==
    IF r.raised THEN [raised |-> FALSE, value |-> Placeholder(path)] ELSE r

\* Bug variant: the use_cache query parameter is ignored.
AnalyzeFuncAlwaysCached(c, use_cache, path, maxc, sinced, today, t) ==
    GetWorkSummaryCached(c, path, maxc, sinced, today, t, cache_ttl_seconds)

\* analyze_func(path, req.max_commits, req.since_days) and the cache after it
AnalyzeFunc(c, use_cache, path, maxc, sinced, today, t) ==
    IF use_cache
    THEN GetWorkSummaryCached(c, path, maxc, sinced, today, t, cache_ttl_seconds)
    ELSE [result |-> GetWorkSummary(path, maxc, sinced, today), cache |-> c]

\* Bug variant: results are stored in completion order.
StoreResultNextFree(results, index, value) ==
    LET free == {i \in DOMAIN results : results[i] = None}
    IN [results EXCEPT ![CHOOSE x \in free : \A y \in free : x <= y] = value]

\* results[index] = future.result()
StoreResult(results, index, value) == [results EXCEPT ![index] = value]

RequestPaths == SeqsUpTo({PathAlpha, PathBetaSlash, PathGone}, MaxPaths)

InitBatch ==
    /\ bt_paths \in RequestPaths
    /\ bt_max_commits \in {1, DefaultMaxCommits}
    /\ bt_since_days = DefaultSinceDays
    /\ bt_parallel \in BOOLEAN
    /\ bt_use_cache \in BOOLEAN
    /\ bt_op = "none"
    /\ bt_pc = "start"
    /\ futures = <<>>
    /\ done_queue = <<>>
    /\ bt_results = <<>>
    /\ bt_summaries = <<>>
    /\ bt_response = <<>>
    /\ bt_raised = FALSE
    /\ cache = {}
    /\ walk = <<>>
    /\ max_commits = 0
    /\ since_days = 0
    /\ now = AnalysisDay
    /\ recent_commits = <<>>
    /\ cpc = "idle"
    /\ JqlIdle
    /\ SuggestIdle
    /\ ScanIdle
    /\ RefIdle
    /\ ToolIdle
    /\ CacheIdle
    /\ PrioIdle
    /\ RouteIdle
    /\ StaleIdle

\* the sequential branch: [analyze_repo(path) for path in req.paths]
RECURSIVE AnalyzeSequentially(_, _, _)
AnalyzeSequentially(c, i, acc) ==
    IF i > Len(bt_paths) THEN [results |-> acc, cache |-> c, raised |-> FALSE]
    ELSE LET f == AnalyzeFunc(c, bt_use_cache, bt_paths[i], bt_max_commits,
                              bt_since_days, now, clock)
             r == AnalyzeRepo(f.result, bt_paths[i])
         IN IF r.raised THEN [results |-> acc, cache |-> f.cache, raised |-> TRUE]
            ELSE AnalyzeSequentially(f.cache, i + 1, Append(acc, r.value))

\* analyze_folders up to the submission of the tasks (parallel mode), or the
\* whole handler (sequential mode)
AnalyzeFolders ==
    /\ bt_pc = "start"
    /\ bt_op' = "analyze_folders"
    /\ IF bt_parallel /\ Len(bt_paths) > 1
       THEN /\ bt_results' = [i \in DOMAIN bt_paths |-> None]
            /\ futures' = [i \in DOMAIN bt_paths |-> [state |-> "pending"]]
            /\ bt_pc' = "pool"
            /\ UNCHANGED <<bt_response, bt_raised, cache>>
       ELSE LET s == AnalyzeSequentially(cache, 1, <<>>)
            IN /\ cache' = s.cache
               /\ bt_raised' = s.raised
               /\ bt_response' = IF s.raised THEN <<>> ELSE s.results
               /\ bt_pc' = IF s.raised THEN "raised" ELSE "returned"
               /\ UNCHANGED <<bt_results, futures>>
    /\ UNCHANGED <<bt_paths, bt_max_commits, bt_since_days, bt_parallel,
                   bt_use_cache, done_queue, bt_summaries>>
    /\ UNCHANGED <<commitVars, jqlVars, suggestVars, scanVars, refVars, toolVars, cacheVars, prioVars, routeVars, staleVars>>

Running == {i \in DOMAIN futures : futures[i].state = "running"}

\* futures already yielded by as_completed
Yielded ==
    {i \in DOMAIN futures :
        futures[i].state = "done" /\ \A k \in DOMAIN done_queue : done_queue[k] # i}

\* a worker thread of the pool takes the next submitted task
WorkerStart(i) ==
    /\ bt_pc = "pool"
    /\ futures[i].state = "pending"
    /\ \A j \in 1..(i - 1) : futures[j].state # "pending"
    /\ Cardinality(Running) < max_parallel_workers
    /\ futures' = [futures EXCEPT ![i] = [state |-> "running"]]
    /\ UNCHANGED <<bt_paths, bt_max_commits, bt_since_days, bt_parallel,
                   bt_use_cache, bt_op, bt_pc, done_queue, bt_results,
                   bt_summaries, bt_response, bt_raised, cache>>
    /\ UNCHANGED <<commitVars, jqlVars, suggestVars, scanVars, refVars, toolVars, cacheVars, prioVars, routeVars, staleVars>>

\* the task analyze_repo(path) of future i runs to its end
WorkerFinish(i) ==
    /\ bt_pc = "pool"
    /\ futures[i].state = "running"
    /\ LET f == AnalyzeFunc(cache, bt_use_cache, bt_paths[i], bt_max_commits,
                            bt_since_days, now, clock)
       IN /\ futures' = [futures EXCEPT ![i] =
                            [state |-> "done",
                             finished_after |-> Len(done_queue) + Cardinality(Yielded),
                             outcome |-> AnalyzeRepo(f.result, bt_paths[i])]]
          /\ cache' = f.cache
    /\ done_queue' = Append(done_queue, i)
    /\ UNCHANGED <<bt_paths, bt_max_commits, bt_since_days, bt_parallel,
                   bt_use_cache, bt_op, bt_pc, bt_results, bt_summaries,
                   bt_response, bt_raised>>
    /\ UNCHANGED <<commitVars, jqlVars, suggestVars, scanVars, refVars, toolVars, cacheVars, prioVars, routeVars, staleVars>>

\* one turn of `for future in as_completed(...)`: results[index] = future.result()
Collect ==
    /\ bt_pc = "pool"
    /\ done_queue # <<>>
    /\ LET index == Head(done_queue)
           outcome == futures[index].outcome
       IN IF outcome.raised
          THEN /\ bt_raised' = TRUE
               /\ bt_pc' = "raised"
               /\ UNCHANGED bt_results
          ELSE /\ bt_results' = StoreResult(bt_results, index, outcome.value)
               /\ UNCHANGED <<bt_raised, bt_pc>>
    /\ done_queue' = Tail(done_queue)
    /\ UNCHANGED <<bt_paths, bt_max_commits, bt_since_days, bt_parallel,
                   bt_use_cache, bt_op, futures, bt_summaries, bt_response, cache>>
    /\ UNCHANGED <<commitVars, jqlVars, suggestVars, scanVars, refVars, toolVars, cacheVars, prioVars, routeVars, staleVars>>

\* every future was yielded by as_completed: return results
ReturnResults ==
    /\ bt_pc = "pool"
    /\ done_queue = <<>>
    /\ \A i \in DOMAIN futures : futures[i].state = "done"
    /\ bt_response' = bt_results
    /\ bt_pc' = "returned"
    /\ UNCHANGED <<bt_paths, bt_max_commits, bt_since_days, bt_parallel,
                   bt_use_cache, bt_op, futures, done_queue, bt_results,
                   bt_summaries, bt_raised, cache>>
    /\ UNCHANGED <<commitVars, jqlVars, suggestVars, scanVars, refVars, toolVars, cacheVars, prioVars, routeVars, staleVars>>

(***************************************************************************)
(* Batch ticket suggestion: CLI `suggest` and MCP `suggest_tickets`        *)
(***************************************************************************)
\* cli/main.py suggest: a path that fails to analyze is reported on the
\* console and left out of `summaries`
RECURSIVE CliSummaries(_)
CliSummaries(paths) ==
    IF paths = <<>> THEN <<>>
    ELSE LET r == GetWorkSummary(Head(paths), DefaultMaxCommits,
                                 DefaultSinceDays, now)
         IN (IF r.raised THEN <<>> ELSE <<r.value>>) \o CliSummaries(Tail(paths))

CliSuggest ==
    /\ bt_pc = "start"
    /\ bt_op' = "cli_suggest"
    /\ bt_summaries' = CliSummaries(bt_paths)
    /\ bt_response' = Suggest(CliSummaries(bt_paths), DefaultKey)
    /\ bt_raised' = FALSE
    /\ bt_pc' = "returned"
    /\ UNCHANGED <<bt_paths, bt_max_commits, bt_since_days, bt_parallel,
                   bt_use_cache, futures, done_queue, bt_results, cache>>
    /\ UNCHANGED <<commitVars, jqlVars, suggestVars, scanVars, refVars, toolVars, cacheVars, prioVars, routeVars, staleVars>>

\* mcp-server/server.py suggest_tickets: the list comprehension has no guard,
\* the first failing path raises out of the tool
McpSuggestTickets ==
    /\ bt_pc = "start"
    /\ bt_op' = "mcp_suggest_tickets"
    /\ LET rs == [i \in DOMAIN bt_paths |->
                     GetWorkSummary(bt_paths[i], DefaultMaxCommits,
                                    DefaultSinceDays, now)]
       IN IF \E i \in DOMAIN rs : rs[i].raised
          THEN /\ bt_raised' = TRUE
               /\ bt_pc' = "raised"
               /\ UNCHANGED <<bt_summaries, bt_response>>
          ELSE /\ bt_summaries' = [i \in DOMAIN rs |-> rs[i].value]
               /\ bt_response' = Suggest([i \in DOMAIN rs |-> rs[i].value], DefaultKey)
               /\ bt_raised' = FALSE
               /\ bt_pc' = "returned"
    /\ UNCHANGED <<bt_paths, bt_max_commits, bt_since_days, bt_parallel,
                   bt_use_cache, futures, done_queue, bt_results, cache>>
    /\ UNCHANGED <<commitVars, jqlVars, suggestVars, scanVars, refVars, toolVars, cacheVars, prioVars, routeVars, staleVars>>

NextBatch ==
    \/ AnalyzeFolders
    \/ \E i \in 1..MaxPaths : i \in DOMAIN futures /\ WorkerStart(i)
    \/ \E i \in 1..MaxPaths : i \in DOMAIN futures /\ WorkerFinish(i)
    \/ Collect
    \/ ReturnResults
    \/ CliSuggest
    \/ McpSuggestTickets

SpecBatch == InitBatch /\ [][NextBatch]_vars


(***************************************************************************)
(* Claims on the batch analysis                                            *)
(***************************************************************************)
\* what the analysis of one path of the request gives, failure included
AnalysisOf(path) ==
    GetWorkSummary(path, bt_max_commits, bt_since_days, now)

ParallelReturned ==
    /\ bt_op = "analyze_folders"
    /\ bt_parallel
    /\ bt_pc \in {"returned", "raised"}

\* C2: for every request of N paths and every completion order of the pool's
\* tasks, analyze_folders in parallel mode returns exactly N work summaries
\* and the element at index i is the analysis of paths[i]: no index is left
\* empty, swapped or overwritten by the result of another path.
C2_ParallelResultsInInputOrder ==
    ParallelReturned =>
        /\ bt_pc = "returned"
        /\ Len(bt_response) = Len(bt_paths)
        /\ \A i \in DOMAIN bt_paths :
              /\ bt_response[i] # None
              /\ bt_response[i] = AnalyzeRepo(AnalysisOf(bt_paths[i]), bt_paths[i]).value

\* three different paths were analyzed by the pool and the task of the last
\* path completed before the task of the first
C2_Witness ==
    /\ ParallelReturned
    /\ bt_pc = "returned"
    /\ Len(bt_paths) = 3
    /\ Cardinality({bt_paths[i] : i \in DOMAIN bt_paths}) = 3
    /\ futures[3].finished_after < futures[2].finished_after
    /\ futures[2].finished_after < futures[1].finished_after

IsPlaceholder(summary) ==
    /\ summary.current_branch = <<"e", "r", "r", "o", "r">>
    /\ summary.uncommitted = NoChanges
    /\ summary.recent_commits = <<>>
    /\ summary.branches = <<>>

\* C3: when the analysis of a path of an analyze_folders batch raises, the
\* batch call does not raise and returns N results; the failing index holds a
\* placeholder (current_branch "error", empty uncommitted changes, commits and
\* branches) and every other index holds the normal result of its own path,
\* in sequential and in parallel mode.
C3_FailingPathBecomesPlaceholder ==
    (bt_op = "analyze_folders" /\ bt_pc # "pool") =>
        /\ ~bt_raised
        /\ bt_pc = "returned"
        /\ Len(bt_response) = Len(bt_paths)
        /\ \A i \in DOMAIN bt_paths :
              IF AnalysisOf(bt_paths[i]).raised
              THEN /\ IsPlaceholder(bt_response[i])
                   /\ bt_response[i].repo_path = bt_paths[i]
              ELSE bt_response[i] = AnalysisOf(bt_paths[i]).value

\* a parallel batch whose middle path failed came back
C3_Witness ==
    /\ bt_op = "analyze_folders"
    /\ bt_pc = "returned"
    /\ bt_parallel
    /\ Len(bt_paths) = 3
    /\ AnalysisOf(bt_paths[2]).raised
    /\ ~AnalysisOf(bt_paths[1]).raised
    /\ ~AnalysisOf(bt_paths[3]).raised
    /\ bt_response[1].recent_commits # <<>>

\* a sequential batch whose first path failed came back
C3_WitnessSequential ==
    /\ bt_op = "analyze_folders"
    /\ bt_pc = "returned"
    /\ ~bt_parallel
    /\ Len(bt_paths) >= 2
    /\ AnalysisOf(bt_paths[1]).raised
    /\ ~AnalysisOf(bt_paths[2]).raised

(***************************************************************************)
(* Claims on the batch suggestion                                          *)
(***************************************************************************)
BatchSuggestDone ==
    /\ bt_op \in {"cli_suggest", "mcp_suggest_tickets"}
    /\ bt_pc \in {"returned", "raised"}

\* the analysis the batch suggestion makes of one path
SuggestAnalysisOf(path) ==
    GetWorkSummary(path, DefaultMaxCommits, DefaultSinceDays, now)

\* C4: a batch ticket suggestion over several paths (CLI suggest, MCP
\* suggest_tickets) never raises out of the batch and never shortens the
\* batch when one path fails to analyze: the failing repository is
\* represented among the work summaries and the candidates of the other
\* repositories are still returned.
C4_BatchSuggestKeepsFullLength ==
    BatchSuggestDone =>
        /\ ~bt_raised
        /\ Len(bt_summaries) = Len(bt_paths)
        /\ \A i \in DOMAIN bt_paths :
              /\ bt_summaries[i].repo_path = PathStr(bt_paths[i])
              /\ ~SuggestAnalysisOf(bt_paths[i]).raised =>
                    \A t \in Range(Suggest(<<SuggestAnalysisOf(bt_paths[i]).value>>, DefaultKey)) :
                        t \in Range(bt_response)


(***************************************************************************)
(* Repository Locator (folder_scanner.py).  A path is the sequence of its  *)
(* components, each a text; str(path) joins them with "/" and is           *)
(* one-to-one on these sequences, so a RepoInfo carries the sequence.      *)
(***************************************************************************)
NameW == <<"w">>

NameR1 == <<"r","1">>

NameR2 == <<"r","2">>

NameR3 == <<"r","3">>

NameD == <<"d">>

NameSub == <<"s","u","b">>

NameBad == <<"b","a","d">>

NameLocked == <<"l","o","c","k","e","d">>

NameNotes == <<"n","o","t","e","s">>

NameDot == <<".","d","o","t">>

NameNope == <<"n","o","p","e">>

PathW == <<NameW>>

PathR1 == <<NameW, NameR1>>

PathR1Sub == <<NameW, NameR1, NameSub>>

PathR2 == <<NameW, NameR2>>

PathD == <<NameW, NameD>>

PathR3 == <<NameW, NameD, NameR3>>

PathBad == <<NameW, NameBad>>

PathLocked == <<NameW, NameLocked>>

PathNotes == <<NameW, NameNotes>>

PathDot == <<NameW, NameDot>>

PathNope == <<NameNope>>

\* what is on disk: directories, a plain file, directories holding ".git"
Directories == {PathW, PathR1, PathR1Sub, PathR2, PathD, PathR3, PathBad,
                PathLocked, PathDot}

Files == {PathNotes}

\* (p / ".git").exists()
GitDirs == {PathR1, PathR2, PathR3, PathBad, PathDot}

\* directories whose listing raises PermissionError
Unreadable == {PathLocked}

\* directories with a ".git" that Repo(path) cannot open
Corrupt == {PathBad}

Repositories == GitDirs \ Corrupt

\* the order sorted() gives to the names
SortedNames == <<NameDot, NameBad, NameD, NameLocked, NameNotes, NameR1,
                 NameR2, NameR3, NameSub, NameW>>

PathNameOf(p) == p[Len(p)]

\* Path.parents, nearest first (the root is left out, it holds no ".git")
PathParents(p) == [i \in 1..(Len(p) - 1) |-> SubSeq(p, 1, Len(p) - i)]

IsDir(p) == p \in Directories

HasGit(p) == p \in GitDirs

\* sorted(path.iterdir())
RECURSIVE SortedEntriesFrom(_, _)
SortedEntriesFrom(p, k) ==
    IF k > Len(SortedNames) THEN <<>>
    ELSE (IF Append(p, SortedNames[k]) \in Directories \cup Files
          THEN <<Append(p, SortedNames[k])>> ELSE <<>>)
         \o SortedEntriesFrom(p, k + 1)

SortedEntries(p) == SortedEntriesFrom(p, 1)

(***************************************************************************)
(* The state of a repository and what GitPython reports of it              *)
(***************************************************************************)
RecentCap == 30     \* iter_commits(max_count=30)

StaleWalkCap == 200     \* repo.iter_commits(default_ref, max_count=200)
StaleDays == 30         \* cutoff = now - timedelta(days=30)

\* The history below a branch: the SHAs of repo.iter_commits(branch), tip
\* first. A trunk of n commits has the SHAs n (tip) down to 1 (root).
Trunk(n) == [i \in 1..n |-> n - i + 1]

\* a local branch (repo.heads): its name, its history, and the age of its
\* tip commit at the time of the scan, in half days
BranchHead(name, history, age) == [name |-> name, history |-> history, age |-> age]

\* a repository on branch main whose only branch is main
WorkTree(has_commits, commits, staged, unstaged, untracked) ==
    [has_commits |-> has_commits, commits |-> commits, staged |-> staged,
     unstaged |-> unstaged, untracked |-> untracked,
     active |-> <<"m","a","i","n">>, detached |-> FALSE,
     heads |-> IF has_commits
               THEN <<BranchHead(<<"m","a","i","n">>, Trunk(commits), 0)>>
               ELSE <<>>]

\* for candidate in ("main", "master", "develop", "development")
DefaultCandidates ==
    << <<"m","a","i","n">>, <<"m","a","s","t","e","r">>,
       <<"d","e","v","e","l","o","p">>,
       <<"d","e","v","e","l","o","p","m","e","n","t">> >>

HasHead(wt, name) == \E i \in DOMAIN wt.heads : wt.heads[i].name = name

HeadNamed(wt, name) == wt.heads[CHOOSE i \in DOMAIN wt.heads : wt.heads[i].name = name]

\* the first name, in the order of the list, whose index is in `present`;
\* <<>> is None
FirstOf(names, present) ==
    IF present = {} THEN <<>>
    ELSE names[CHOOSE k \in present : \A j \in present : k <= j]

\* the first of a list of names that is a branch of the repository
FirstPresent(wt, names) ==
    FirstOf(names, {k \in DOMAIN names : HasHead(wt, names[k])})

\* lines 372-373: without a candidate, the checked-out branch
OrActiveBranch(first, wt) ==
    IF first # <<>> THEN first
    ELSE IF ~wt.detached THEN wt.active
    ELSE <<>>

\* default_branch_name (lines 367-373)
DefaultBranchName(wt) == OrActiveBranch(FirstPresent(wt, DefaultCandidates), wt)

StaleBranch(b) ==
    [name |-> b.name, last_commit_age |-> b.age, days_stale |-> b.age \div 2,
     is_merged |-> FALSE]

\* the loop over repo.heads (lines 382-402) against the commits collected
\* from the default branch
StaleAgainst(heads, name, default_shas) ==
    [i \in {k \in DOMAIN heads :
                /\ heads[k].name # name
                /\ heads[k].age > 2 * StaleDays
                /\ heads[k].history[1] \notin default_shas} |->
        StaleBranch(heads[i])]

\* a function over a set of indices, as the list of its values in order
RECURSIVE Compact(_, _)
Compact(f, n) ==
    IF n = 0 THEN <<>>
    ELSE Compact(f, n - 1) \o (IF n \in DOMAIN f THEN <<f[n]>> ELSE <<>>)

\* Variant: the whole history of the default branch is walked.
StaleFromWholeWalk(wt, name) ==
    IF name = <<>> \/ ~HasHead(wt, name) THEN <<>>
    ELSE Compact(StaleAgainst(wt.heads, name, Range(HeadNamed(wt, name).history)),
                 Len(wt.heads))

\* lines 375-404 for the default branch of the given name
StaleFrom(wt, name) ==
    IF name = <<>> \/ ~HasHead(wt, name) THEN <<>>
    ELSE Compact(StaleAgainst(wt.heads, name,
                     Range(Take(HeadNamed(wt, name).history, StaleWalkCap))),
                 Len(wt.heads))

\* stale_branches of a repository with commits (lines 364-404)
StaleBranches(wt) == StaleFrom(wt, DefaultBranchName(wt))

\* branch = str(repo.active_branch) if not repo.head.is_detached else "HEAD"
CurrentBranch(wt) ==
    IF ~wt.has_commits THEN <<"m","a","i","n">>
    ELSE IF wt.detached THEN <<"H","E","A","D">>
    ELSE wt.active

\* repo.is_dirty(untracked_files=...): index against HEAD, work tree against
\* index, and the untracked files when asked for
RepoIsDirty(wt, untracked_files) ==
    \/ wt.staged > 0
    \/ wt.unstaged > 0
    \/ (untracked_files /\ wt.untracked > 0)

NoInfo == [none |-> TRUE]

NoName == <<>>

\* Bug variant: the staged files of a repository without commits are counted.
ScanRepoCountsStaged(path, display_name, wts) ==
    IF path \in Corrupt THEN NoInfo
    ELSE LET wt == wts[path]
             untracked_count == wt.untracked
             is_dirty == IF wt.has_commits THEN RepoIsDirty(wt, TRUE)
                         ELSE wt.untracked > 0
             uncommitted == wt.staged + wt.unstaged + untracked_count
         IN [name |-> IF display_name # NoName THEN display_name ELSE PathNameOf(path),
             path |-> path,
             current_branch |-> CurrentBranch(wt),
             status |-> IF is_dirty THEN "dirty" ELSE "clean",
             uncommitted_count |-> uncommitted,
             recent_commit_count |-> IF wt.has_commits THEN Min(wt.commits, RecentCap) ELSE 0,
             untracked_count |-> untracked_count,
             stale_branches |-> IF wt.has_commits THEN StaleBranches(wt) ELSE <<>>]

\* FolderScanner._scan_repo(path, display_name); NoInfo is None
ScanRepo(path, display_name, wts) ==
    IF path \in Corrupt THEN NoInfo
    ELSE LET wt == wts[path]
             untracked_count == wt.untracked
             is_dirty == IF wt.has_commits THEN RepoIsDirty(wt, TRUE)
                         ELSE wt.untracked > 0
             uncommitted == IF wt.has_commits
                            THEN wt.staged + wt.unstaged + untracked_count
                            ELSE untracked_count
         IN [name |-> IF display_name # NoName THEN display_name ELSE PathNameOf(path),
             path |-> path,
             current_branch |-> CurrentBranch(wt),
             status |-> IF is_dirty THEN "dirty" ELSE "clean",
             uncommitted_count |-> uncommitted,
             recent_commit_count |-> IF wt.has_commits THEN Min(wt.commits, RecentCap) ELSE 0,
             untracked_count |-> untracked_count,
             stale_branches |-> IF wt.has_commits THEN StaleBranches(wt) ELSE <<>>]

(***************************************************************************)
(* Exclusions                                                              *)
(***************************************************************************)
\* fnmatch.fnmatch(name, pattern) for patterns made of characters, * and ?
RECURSIVE FnMatch(_, _)
FnMatch(name, pattern) ==
    IF pattern = <<>> THEN name = <<>>
    ELSE IF pattern[1] = "*"
         THEN \/ FnMatch(name, Tail(pattern))
              \/ (name # <<>> /\ FnMatch(Tail(name), pattern))
         ELSE /\ name # <<>>
              /\ (pattern[1] = "?" \/ pattern[1] = name[1])
              /\ FnMatch(Tail(name), Tail(pattern))

\* FolderScanner._is_excluded
IsExcluded(path, scan_config) ==
    \/ \E i \in DOMAIN scan_config.exclude_folders :
          scan_config.exclude_folders[i] = PathNameOf(path)
    \/ \E i \in DOMAIN scan_config.exclude_patterns :
          FnMatch(PathNameOf(path), scan_config.exclude_patterns[i])

DefaultExcludePatterns ==
    <<<<"n","o","d","e","_","m","o","d","u","l","e","s">>, <<".","v","e","n","v">>, <<".","g","i","t">>, <<"_","_","p","y","c","a","c","h","e","_","_">>, <<".","p","y","t","e","s","t","_","c","a","c","h","e">>>>

DefaultMaxDepth == 1    \* ScanDirectory.max_depth

\* ScanDirectory(path=...) with the defaults of the model
DefaultScanDirectory(path) ==
    [path |-> path, enabled |-> TRUE, recursive |-> FALSE,
     max_depth |-> DefaultMaxDepth,
     exclude_patterns |-> DefaultExcludePatterns, exclude_folders |-> <<>>]


(***************************************************************************)
(* Directory walks.  A walk gives [raised, repos]; raised stands for the   *)
(* PermissionError of iterdir() leaving the function.                      *)
(***************************************************************************)
Found(repos) == [raised |-> FALSE, repos |-> repos]

Raised == [raised |-> TRUE, repos |-> <<>>]

InfoList(info) == IF info = NoInfo THEN <<>> ELSE <<info>>

\* the loop of _scan_flat over the sorted entries
RECURSIVE ScanFlatLoop(_, _, _)
ScanFlatLoop(children, scan_config, wts) ==
    IF children = <<>> THEN <<>>
    ELSE LET child == Head(children)
             rest == ScanFlatLoop(Tail(children), scan_config, wts)
         IN IF ~IsDir(child) \/ PathNameOf(child)[1] = "."
            THEN rest
            ELSE IF IsExcluded(child, scan_config)
            THEN rest
            ELSE IF HasGit(child)
            THEN InfoList(ScanRepo(child, NoName, wts)) \o rest
            ELSE rest

\* FolderScanner._scan_flat: iterdir() is not guarded
ScanFlat(base_path, scan_config, wts) ==
    IF base_path \in Unreadable THEN Raised
    ELSE Found(ScanFlatLoop(SortedEntries(base_path), scan_config, wts))

\* FolderScanner._scan_recursive: PermissionError and OSError of the listing
\* are caught, the directory gives what was found before the error
RECURSIVE ScanRecursive(_, _, _, _)
ScanRecursive(path, scan_config, current_depth, wts) ==
    IF current_depth >= scan_config.max_depth THEN Found(<<>>)
    ELSE IF path \in Unreadable THEN Found(<<>>)
    ELSE LET Loop[k \in 1..(Len(SortedEntries(path)) + 1)] ==
                 IF k > Len(SortedEntries(path)) THEN <<>>
                 ELSE LET child == SortedEntries(path)[k]
                          rest == Loop[k + 1]
                      IN IF ~IsDir(child) \/ PathNameOf(child)[1] = "."
                         THEN rest
                         ELSE IF IsExcluded(child, scan_config)
                         THEN rest
                         ELSE IF HasGit(child)
                         THEN InfoList(ScanRepo(child, NoName, wts)) \o rest
                         ELSE ScanRecursive(child, scan_config,
                                            current_depth + 1, wts).repos \o rest
         IN Found(Loop[1])

\* the parents of the path that hold ".git", nearest first
GitParents(p) == SelectSeq(PathParents(p), HasGit)

\* FolderScanner._scan_directory
ScanDirectory(scan_config, wts) ==
    LET base_path == scan_config.path IN
    IF ~IsDir(base_path) THEN Found(<<>>)
    ELSE IF HasGit(base_path)
    THEN Found(InfoList(ScanRepo(base_path, NoName, wts)))
    ELSE IF GitParents(base_path) # <<>>
    THEN Found(InfoList(ScanRepo(Head(GitParents(base_path)),
                                 PathNameOf(base_path), wts)))
    ELSE IF scan_config.recursive
    THEN ScanRecursive(base_path, scan_config, 0, wts)
    ELSE ScanFlat(base_path, scan_config, wts)

(***************************************************************************)
(* FolderScanner.scan                                                      *)
(***************************************************************************)
\* a "specific" directory is, or is inside, a repository
IsSpecific(scan_dir) ==
    HasGit(scan_dir.path) \/ GitParents(scan_dir.path) # <<>>

Enabled(dirs) == SelectSeq(dirs, LAMBDA d : d.enabled)

SpecificDirs(dirs) == SelectSeq(Enabled(dirs), IsSpecific)

BroadDirs(dirs) == SelectSeq(Enabled(dirs), LAMBDA d : ~IsSpecific(d))

Paths(repos) == {repos[i].path : i \in DOMAIN repos}

\* `if repo.path not in seen_paths: ... repos.append(repo)` over one result
RECURSIVE AddUnseen(_, _)
AddUnseen(repos, found) ==
    IF found = <<>> THEN repos
    ELSE AddUnseen(IF Head(found).path \in Paths(repos) THEN repos
                   ELSE Append(repos, Head(found)),
                   Tail(found))

\* the loop over a list of scan directories; the exception of a directory
\* leaves the loop
RECURSIVE ScanAll(_, _, _)
ScanAll(dirs, repos, wts) ==
    IF dirs = <<>> THEN Found(repos)
    ELSE LET r == ScanDirectory(Head(dirs), wts)
         IN IF r.raised THEN Raised
            ELSE ScanAll(Tail(dirs), AddUnseen(repos, r.repos), wts)

\* Bug variant: the broad directories are scanned before the specific ones.
MultiScanBroadFirst(dirs, wts) ==
    LET broad == ScanAll(BroadDirs(dirs), <<>>, wts)
        all == IF broad.raised THEN Raised
               ELSE ScanAll(SpecificDirs(dirs), broad.repos, wts)
    IN [raised |-> all.raised, repos |-> all.repos,
        explicit_paths |-> IF all.raised THEN {}
                           ELSE Paths(all.repos) \ Paths(broad.repos)]

\* lines 76-111: specific directories first, then the broad ones
MultiScan(dirs, wts) ==
    LET specific == ScanAll(SpecificDirs(dirs), <<>>, wts)
        all == IF specific.raised THEN Raised
               ELSE ScanAll(BroadDirs(dirs), specific.repos, wts)
    IN [raised |-> all.raised, repos |-> all.repos,
        explicit_paths |-> Paths(specific.repos)]

\* lines 113-121: the hidden repositories are filtered out
FilterHidden(repos, explicit_paths, hidden, include_hidden) ==
    IF ~include_hidden /\ hidden # {}
    THEN SelectSeq(repos, LAMBDA r : r.path \in explicit_paths \/ r.name \notin hidden)
    ELSE repos

\* the value of scan(include_hidden), or the exception
ScanResult(legacy_mode, scan_config, dirs, hidden, include_hidden, wts) ==
    LET found == IF legacy_mode /\ scan_config # <<>>
                 THEN LET r == ScanDirectory(scan_config, wts)
                      IN [raised |-> r.raised, repos |-> r.repos, explicit_paths |-> {}]
                 ELSE MultiScan(dirs, wts)
    IN IF found.raised THEN Raised
       ELSE Found(FilterHidden(found.repos, found.explicit_paths, hidden, include_hidden))


(***************************************************************************)
(* Inputs of the Repository Locator                                        *)
(***************************************************************************)
MaxRoots == 2       \* longest list of configured scan directories
MaxFiles == 1       \* most staged / unstaged / untracked files of a repository
DeepDepth == 2      \* a max_depth that reaches the repository below PathD

NoBasePath == <<>>

ScanDir(path, recursive, max_depth) ==
    [DefaultScanDirectory(path) EXCEPT !.recursive = recursive,
                                       !.max_depth = max_depth]

ScanDirChoices ==
    { ScanDir(PathW, FALSE, DefaultMaxDepth),
      ScanDir(PathW, TRUE, DefaultMaxDepth),
      ScanDir(PathW, TRUE, DeepDepth),
      ScanDir(PathR1, FALSE, DefaultMaxDepth),
      ScanDir(PathR1Sub, FALSE, DefaultMaxDepth),
      ScanDir(PathD, FALSE, DefaultMaxDepth),
      ScanDir(PathLocked, FALSE, DefaultMaxDepth),
      ScanDir(PathLocked, TRUE, DefaultMaxDepth),
      ScanDir(PathNope, FALSE, DefaultMaxDepth),
      [ScanDir(PathW, FALSE, DefaultMaxDepth) EXCEPT !.exclude_folders = <<NameR2>>],
      [ScanDir(PathW, FALSE, DefaultMaxDepth) EXCEPT !.exclude_patterns = <<<<"r", "?">>>>],
      [ScanDir(PathW, TRUE, DeepDepth) EXCEPT !.enabled = FALSE] }

BasePaths == {NoBasePath, PathW, PathR1, PathR1Sub, PathD, PathLocked, PathNope}

HiddenChoices == {{}, {NameR1}, {NameR2, NameR3, NameSub}}

WorkTrees ==
    {WorkTree(h, IF h THEN 2 ELSE 0, s, u, t) :
        h \in BOOLEAN, s \in 0..MaxFiles, u \in 0..MaxFiles, t \in 0..MaxFiles}

\* the repositories as they usually are: R1 has local changes, R2 is clean,
\* R3 has no commit yet and one staged file
UsualWorkTrees ==
    [p \in Repositories |->
        CASE p = PathR1 -> WorkTree(TRUE, 2, 0, 1, 0)
          [] p = PathR3 -> WorkTree(FALSE, 0, 1, 0, 0)
          [] OTHER -> WorkTree(TRUE, RecentCap + 1, 0, 0, 0)]

InitScan ==
    /\ \/ /\ sc_dirs \in SeqsUpTo(ScanDirChoices, MaxRoots)
          /\ worktree = UsualWorkTrees
       \/ /\ sc_dirs \in SeqsUpTo(ScanDirChoices, 1)
          /\ worktree \in {[UsualWorkTrees EXCEPT ![p] = wt] :
                              p \in {PathR1, PathR3}, wt \in WorkTrees}
    /\ sc_base_path \in BasePaths
    /\ sc_hidden \in HiddenChoices
    /\ sc_include_hidden \in BOOLEAN
    /\ sc_legacy_mode = FALSE
    /\ sc_scan_config = <<>>
    /\ sc_pc = "new"
    /\ sc_repos = <<>>
    /\ CommitIdle
    /\ JqlIdle
    /\ SuggestIdle
    /\ BatchIdle
    /\ RefIdle
    /\ ToolIdle
    /\ CacheIdle
    /\ PrioIdle
    /\ RouteIdle
    /\ StaleIdle

\* FolderScanner.__init__(base_path)
NewFolderScanner ==
    /\ sc_pc = "new"
    /\ IF sc_base_path # NoBasePath
       THEN /\ sc_legacy_mode' = TRUE
            /\ sc_scan_config' =
                  IF sc_dirs # <<>>
                  THEN [path |-> sc_base_path, enabled |-> TRUE,
                        recursive |-> sc_dirs[1].recursive,
                        max_depth |-> sc_dirs[1].max_depth,
                        exclude_patterns |-> sc_dirs[1].exclude_patterns,
                        exclude_folders |-> sc_dirs[1].exclude_folders]
                  ELSE DefaultScanDirectory(sc_base_path)
       ELSE /\ sc_legacy_mode' = FALSE
            /\ sc_scan_config' = <<>>
    /\ sc_pc' = "ready"
    /\ UNCHANGED <<worktree, sc_base_path, sc_dirs, sc_hidden, sc_include_hidden,
                   sc_repos>>
    /\ UNCHANGED <<commitVars, jqlVars, suggestVars, batchVars, refVars, toolVars, cacheVars, prioVars, routeVars, staleVars>>

\* FolderScanner.scan(include_hidden)
Scan ==
    /\ sc_pc = "ready"
    /\ LET r == ScanResult(sc_legacy_mode, sc_scan_config, sc_dirs, sc_hidden,
                           sc_include_hidden, worktree)
       IN /\ sc_repos' = r.repos
          /\ sc_pc' = IF r.raised THEN "raised" ELSE "returned"
    /\ UNCHANGED <<worktree, sc_base_path, sc_dirs, sc_hidden, sc_include_hidden,
                   sc_legacy_mode, sc_scan_config>>
    /\ UNCHANGED <<commitVars, jqlVars, suggestVars, batchVars, refVars, toolVars, cacheVars, prioVars, routeVars, staleVars>>

NextScan == NewFolderScanner \/ Scan

SpecScan == InitScan /\ [][NextScan]_vars

(***************************************************************************)
(* Claims on the Repository Locator                                        *)
(***************************************************************************)
\* C11: every RepoInfo returned by the Repository Locator has status dirty
\* if and only if uncommitted_count > 0 or untracked_count > 0, for
\* repositories with commits and for repositories with no commit yet (where
\* staged files alone do not make the repository dirty).
C11_StatusInvariant ==
    sc_pc = "returned" =>
        \A i \in DOMAIN sc_repos :
            (sc_repos[i].status = "dirty") <=>
                (sc_repos[i].uncommitted_count > 0 \/ sc_repos[i].untracked_count > 0)

\* a repository without commits and with staged files only was returned
\* clean, next to a dirty repository with commits
C11_Witness ==
    /\ sc_pc = "returned"
    /\ \E i \in DOMAIN sc_repos :
          /\ ~worktree[sc_repos[i].path].has_commits
          /\ worktree[sc_repos[i].path].staged > 0
          /\ sc_repos[i].status = "clean"
    /\ \E i \in DOMAIN sc_repos :
          /\ worktree[sc_repos[i].path].has_commits
          /\ sc_repos[i].status = "dirty"


\* the scan directories of the scanner: the legacy one, or the enabled ones
Roots == IF sc_legacy_mode THEN <<sc_scan_config>> ELSE Enabled(sc_dirs)

\* the entries the specific roots produce
SpecificEntries ==
    UNION {Range(ScanDirectory(d, worktree).repos) :
              d \in {x \in Range(Roots) : IsSpecific(x)}}

\* C12: in a multi-directory scan no two returned RepoInfo have the same
\* path, whatever the number and order of the configured roots that reach a
\* repository; when a path is discovered through a specific root and through
\* a broad root, the entry kept is the one produced by the specific root.
C12_OneEntryPerPath ==
    (sc_pc = "returned" /\ ~sc_legacy_mode) =>
        /\ \A i, j \in DOMAIN sc_repos :
              sc_repos[i].path = sc_repos[j].path => i = j
        /\ \A i \in DOMAIN sc_repos :
              sc_repos[i].path \in {e.path : e \in SpecificEntries}
                  => sc_repos[i] \in SpecificEntries

\* a broad root listed before a specific root inside the same repository:
\* the repository is returned once, under the name the specific root gives
C12_Witness ==
    /\ sc_pc = "returned"
    /\ ~sc_legacy_mode
    /\ Len(sc_dirs) = 2
    /\ sc_dirs[1].path = PathW
    /\ sc_dirs[2].path = PathR1Sub
    /\ Len(sc_repos) >= 2
    /\ \E i \in DOMAIN sc_repos :
          sc_repos[i].path = PathR1 /\ sc_repos[i].name = NameSub

\* C13: a repository discovered through a specific root is returned by
\* scan(include_hidden=false) even when its name is in the hidden set, while
\* a repository with a hidden name discovered only through a broad root is
\* not returned; for every way of configuring the scanner, the legacy
\* single-base-path mode included.
C13_SpecificRootsBypassHidden ==
    (sc_pc = "returned" /\ ~sc_include_hidden) =>
        /\ \A e \in SpecificEntries : e.path \in Paths(sc_repos)
        /\ \A i \in DOMAIN sc_repos :
              sc_repos[i].name \in sc_hidden => sc_repos[i] \in SpecificEntries

\* the same property for the multi-directory mode alone
SpecificRootsBypassHiddenMulti ==
    ~sc_legacy_mode => C13_SpecificRootsBypassHidden

\* C14: scan never aborts because of a discovery failure: a base directory
\* or subdirectory that does not exist or cannot be read, and a directory
\* that cannot be opened as a repository, are skipped without raising, in
\* flat and in recursive mode, and the repositories found in the other
\* directories are still returned.
C14_ScanNeverAborts ==
    sc_pc \in {"returned", "raised"} =>
        /\ sc_pc = "returned"
        /\ sc_include_hidden =>
              \A d \in Range(Roots) :
                  \A e \in Range(ScanDirectory(d, worktree).repos) :
                      e.path \in Paths(sc_repos)

\* the same property when no flat root is an unreadable directory
ScanNeverAbortsReadableFlat ==
    (\A d \in Range(Roots) : d.recursive \/ d.path \notin Unreadable) => C14_ScanNeverAborts


(***************************************************************************)
(* Issue-key extraction from commit messages and branch names              *)
(***************************************************************************)
MaxRefToks == 3     \* tokens of a message or branch name

RefTokens == {<<"A","B","-","1">>, <<"C","D","-","2","2">>, <<"A","-","3">>, <<"x">>, <<" ">>, <<"/">>}

RECURSIVE ConcatAll(_)
ConcatAll(ts) == IF ts = <<>> THEN <<>> ELSE Head(ts) \o ConcatAll(Tail(ts))

RefTexts == {ConcatAll(ts) : ts \in SeqsUpTo(RefTokens, MaxRefToks)}

InitRefs ==
    /\ rf_text \in RefTexts
    /\ rf_source = "none"
    /\ rf_refs = <<>>
    /\ rf_pc = "start"
    /\ CommitIdle
    /\ JqlIdle
    /\ SuggestIdle
    /\ BatchIdle
    /\ ScanIdle
    /\ ToolIdle
    /\ CacheIdle
    /\ PrioIdle
    /\ RouteIdle
    /\ StaleIdle

\* _get_recent_commits, line 214: jira_refs of a commit message
CommitRefs ==
    /\ rf_pc = "start"
    /\ rf_source' = "commit"
    /\ rf_refs' = Commit(<<>>, rf_text, 0, 0, 0).jira_refs
    /\ rf_pc' = "done"
    /\ UNCHANGED rf_text
    /\ UNCHANGED <<commitVars, jqlVars, suggestVars, batchVars, scanVars, toolVars, cacheVars, prioVars, routeVars, staleVars>>

\* _get_branches, line 237: jira_refs of a branch name
BranchRefs ==
    /\ rf_pc = "start"
    /\ rf_source' = "branch"
    /\ rf_refs' = FindJiraRefs(rf_text)
    /\ rf_pc' = "done"
    /\ UNCHANGED rf_text
    /\ UNCHANGED <<commitVars, jqlVars, suggestVars, batchVars, scanVars, toolVars, cacheVars, prioVars, routeVars, staleVars>>

NextRefs == CommitRefs \/ BranchRefs

SpecRefs == InitRefs /\ [][NextRefs]_vars

\* the matches of the pattern, each kept at its first occurrence only
RECURSIVE FirstOccurrences(_)
FirstOccurrences(s) ==
    IF s = <<>> THEN <<>>
    ELSE LET front == FirstOccurrences(SubSeq(s, 1, Len(s) - 1))
         IN IF s[Len(s)] \in Range(front) THEN front ELSE Append(front, s[Len(s)])

\* C15: issue-key extraction from a commit message or a branch name returns
\* the distinct keys matching the pattern in order of first occurrence, with
\* duplicates removed: a text that mentions a key several times yields that
\* key once in jira_refs.
C15_KeysDistinctInOrder ==
    rf_pc = "done" =>
        /\ IsInjective(rf_refs)
        /\ rf_refs = FirstOccurrences(FindJiraRefs(rf_text))

\* the same without the removal of duplicates: every match, in text order
KeysInTextOrder ==
    rf_pc = "done" =>
        /\ \A i \in DOMAIN rf_refs : JiraRefEnd(rf_refs[i], 1) = Len(rf_refs[i])
        /\ FirstOccurrences(rf_refs) = FirstOccurrences(FindJiraRefs(rf_text))
        /\ Len(rf_refs) = Cardinality({j \in DOMAIN rf_text : JiraRefEnd(rf_text, j) > 0
                              /\ \A k \in 1..(j - 1) : ~(JiraRefEnd(rf_text, k) >= j)})


(***************************************************************************)
(* External tools of the History Miner: remote fetch, pull, gh pr list     *)
(***************************************************************************)
SubprocessTimeout == 15     \* subprocess.run(..., timeout=15)
MaxWait == 16               \* the waiting of a call is followed this long

\* the values of tl_result: no value yet, a list, or the dict of git_pull
NoResult == [none |-> TRUE]

List(items) == [items |-> items]

Pr(number, headRefName) == [number |-> number, headRefName |-> headRefName]

\* what `gh pr list --json ...` prints when it works: newest first, two pull
\* requests of the same branch
GhOutput == <<Pr(3, BranchFb1), Pr(2, BranchFb2), Pr(1, BranchFb1)>>

GhFailures == {"missing", "nonzero", "malformed", "timeout"}

\* The behaviours of the environment during one call.  gh resolves the
\* remote through the repository, so it does not list anything when the
\* directory is not a repository.
ToolEnvs ==
    {e \in [repo_ok : BOOLEAN, has_remote : BOOLEAN,
            fetch : {"ok", "fail", "hang"},
            gh : {"ok"} \cup GhFailures,
            dirty : BOOLEAN,
            stash : {"ok", "fail"},
            checkout : {"ok", "fail"},
            pull : {"ok", "fail", "hang"},
            pop : {"ok", "fail"}] :
        /\ ~e.repo_ok => (e.gh # "ok" /\ ~e.has_remote /\ ~e.dirty)
        /\ ~e.dirty => (e.stash = "ok" /\ e.pop = "ok")}

InitTools ==
    /\ tl_env \in ToolEnvs
    /\ tl_op = "none"
    /\ tl_pc = "start"
    /\ tl_elapsed = 0
    /\ tl_stash = 0
    /\ tl_result = NoResult
    /\ CommitIdle
    /\ JqlIdle
    /\ SuggestIdle
    /\ BatchIdle
    /\ ScanIdle
    /\ RefIdle
    /\ CacheIdle
    /\ PrioIdle
    /\ RouteIdle
    /\ StaleIdle

\* lines 96-106: one entry for each branch, the first pull request met
RECURSIVE SeenByBranch(_, _)
SeenByBranch(seen, prs) ==
    IF prs = <<>> THEN seen
    ELSE SeenByBranch(
             IF \E i \in DOMAIN seen : seen[i].branch = Head(prs).headRefName
             THEN seen
             ELSE Append(seen, [branch |-> Head(prs).headRefName,
                                pr_number |-> Head(prs).number,
                                pr_state |-> "OPEN"]),
             Tail(prs))

\* lines 108-122: main / master of the remote are always listed
RECURSIVE WithDefaultBranches(_, _, _)
WithDefaultBranches(seen, defaults, remote_refs) ==
    IF defaults = <<>> THEN seen
    ELSE WithDefaultBranches(
             IF Head(defaults) \in remote_refs
                /\ ~\E i \in DOMAIN seen : seen[i].branch = Head(defaults)
             THEN Append(seen, [branch |-> Head(defaults), pr_number |-> 0,
                                pr_state |-> "DEFAULT"])
             ELSE seen,
             Tail(defaults), remote_refs)

RemoteRefs(env) ==
    IF env.repo_ok /\ env.has_remote THEN {BranchMain, BranchFb1} ELSE {}

\* the value get_remote_branches returns once gh has answered
RemoteBranchesOf(env) ==
    IF env.gh # "ok" THEN <<>>
    ELSE WithDefaultBranches(SeenByBranch(<<>>, GhOutput),
                             <<BranchMain, <<"m","a","s","t","e","r">>>>, RemoteRefs(env))

\* the value _get_pull_requests returns once gh has answered
PullRequestsOf(env) ==
    IF env.gh # "ok" THEN <<>>
    ELSE [i \in DOMAIN GhOutput |->
             [number |-> GhOutput[i].number, branch |-> GhOutput[i].headRefName]]

\* Bug variant: the exception of the gh call is not caught.
GhStepUnguarded(env, value) ==
    IF env.gh = "timeout" THEN [pc |-> "gh_wait", result |-> NoResult]
    ELSE IF env.gh \in {"missing", "malformed"} THEN [pc |-> "raised", result |-> NoResult]
    ELSE [pc |-> "returned", result |-> List(value)]

\* subprocess.run(["gh", ...], timeout=15) inside try/except Exception: the
\* call waits when gh does not answer, and returns otherwise
GhStep(env, value) ==
    IF env.gh = "timeout" THEN [pc |-> "gh_wait", result |-> NoResult]
    ELSE [pc |-> "returned", result |-> List(value)]

\* GitAnalyzer.get_remote_branches(repo_path): the fetch has no timeout
GetRemoteBranches ==
    /\ tl_pc = "start"
    /\ tl_op' = "get_remote_branches"
    /\ IF tl_env.repo_ok /\ tl_env.has_remote /\ tl_env.fetch = "hang"
       THEN /\ tl_pc' = "fetch_wait"
            /\ tl_result' = NoResult
       ELSE LET g == GhStep(tl_env, RemoteBranchesOf(tl_env))
            IN /\ tl_pc' = g.pc
               /\ tl_result' = g.result
    /\ UNCHANGED <<tl_env, tl_elapsed, tl_stash>>
    /\ UNCHANGED <<commitVars, jqlVars, suggestVars, batchVars, scanVars, refVars, cacheVars, prioVars, routeVars, staleVars>>

\* GitAnalyzer._get_pull_requests(repo_path)
GetPullRequests ==
    /\ tl_pc = "start"
    /\ tl_op' = "get_pull_requests"
    /\ LET g == GhStep(tl_env, PullRequestsOf(tl_env))
       IN /\ tl_pc' = g.pc
          /\ tl_result' = g.result
    /\ UNCHANGED <<tl_env, tl_elapsed, tl_stash>>
    /\ UNCHANGED <<commitVars, jqlVars, suggestVars, batchVars, scanVars, refVars, cacheVars, prioVars, routeVars, staleVars>>

PullFailed(error) == [success |-> FALSE, error |-> error]

\* GitAnalyzer.git_pull(repo_path, branch) up to the answer of `git pull`,
\* which has no timeout: [pc, stash, result]
GitPullSteps(env) ==
    LET had_stash == env.dirty IN
    IF ~env.repo_ok
    THEN [pc |-> "returned", stash |-> 0, result |-> PullFailed("InvalidGitRepositoryError")]
    ELSE IF had_stash /\ env.stash = "fail"
    THEN [pc |-> "returned", stash |-> 0, result |-> PullFailed("GitCommandError: stash")]
    ELSE IF env.checkout = "fail"
    THEN [pc |-> "returned", stash |-> IF had_stash THEN 1 ELSE 0,
          result |-> PullFailed("GitCommandError: checkout")]
    ELSE IF env.pull = "hang"
    THEN [pc |-> "pull_wait", stash |-> IF had_stash THEN 1 ELSE 0, result |-> NoResult]
    ELSE IF env.pull = "fail"
    THEN [pc |-> "returned", stash |-> IF had_stash THEN 1 ELSE 0,
          result |-> PullFailed("GitCommandError: pull")]
    ELSE [pc |-> "returned",
          stash |-> IF had_stash /\ env.pop = "fail" THEN 1 ELSE 0,
          result |-> [success |-> TRUE]]

GitPull ==
    /\ tl_pc = "start"
    /\ tl_op' = "git_pull"
    /\ tl_pc' = GitPullSteps(tl_env).pc
    /\ tl_stash' = GitPullSteps(tl_env).stash
    /\ tl_result' = GitPullSteps(tl_env).result
    /\ UNCHANGED <<tl_env, tl_elapsed>>
    /\ UNCHANGED <<commitVars, jqlVars, suggestVars, batchVars, scanVars, refVars, cacheVars, prioVars, routeVars, staleVars>>

\* a second passes while the external process does not answer
Wait ==
    /\ tl_pc \in {"fetch_wait", "gh_wait", "pull_wait"}
    /\ tl_elapsed < MaxWait
    /\ tl_pc = "gh_wait" => tl_elapsed < SubprocessTimeout
    /\ tl_elapsed' = tl_elapsed + 1
    /\ UNCHANGED <<tl_env, tl_op, tl_pc, tl_stash, tl_result>>
    /\ UNCHANGED <<commitVars, jqlVars, suggestVars, batchVars, scanVars, refVars, cacheVars, prioVars, routeVars, staleVars>>

\* subprocess.run raises TimeoutExpired, which the except clause turns into []
TimeoutExpired ==
    /\ tl_pc = "gh_wait"
    /\ tl_elapsed >= SubprocessTimeout
    /\ tl_pc' = "returned"
    /\ tl_result' = List(<<>>)
    /\ UNCHANGED <<tl_env, tl_op, tl_elapsed, tl_stash>>
    /\ UNCHANGED <<commitVars, jqlVars, suggestVars, batchVars, scanVars, refVars, cacheVars, prioVars, routeVars, staleVars>>

NextTools == GetRemoteBranches \/ GetPullRequests \/ GitPull \/ Wait \/ TimeoutExpired

SpecTools == InitTools /\ [][NextTools]_vars

\* the running call takes its steps
SpecToolsFair == SpecTools /\ WF_vars(NextTools)

(***************************************************************************)
(* Claims on the external tools                                            *)
(***************************************************************************)
PullFailure(env) ==
    \/ ~env.repo_ok
    \/ (env.dirty /\ env.stash = "fail")
    \/ env.checkout = "fail"
    \/ env.pull = "fail"

C17_WitnessPull ==
    /\ tl_pc = "returned"
    /\ tl_op = "git_pull"
    /\ tl_env.pull = "fail"
    /\ ~tl_result.success

\* C19: every pipeline operation that invokes an external process (remote
\* fetch, pull, pull-request listing through the CLI) is bounded by a
\* timeout: if the external process never responds, the operation still
\* eventually returns, with a soft-failure result, so that no such call can
\* block forever.
C19_ExternalCallsReturn ==
    (tl_op # "none") ~> (tl_pc = "returned")

\* the same for the calls of gh, which carry timeout=15
GhCallsReturn ==
    (tl_op = "get_pull_requests") ~> (tl_pc = "returned" /\ (tl_env.gh = "timeout" => tl_result = List(<<>>)))


(***************************************************************************)
(* History Miner cache over a sequence of requests: POST /analyze with one *)
(* path, POST /clear-cache, time passing and the repositories changing in  *)
(* between (routes/folders.py).                                            *)
(***************************************************************************)
MaxSteps == 5       \* requests, clock advances and checkouts of one run

\* Optional[str]: None is the empty tuple, a given path the tuple of that path
NoPath == <<>>

SomePath(path) == <<path>>

\* GitAnalyzer.clear_cache(repo_path): one path, or everything
ClearCache(c, repo_path) ==
    IF repo_path = NoPath THEN {} ELSE {e \in c : e.key[1] # repo_path[1]}

\* how far the clock moves between two requests: just under the TTL, or the TTL
TickSteps == {cache_ttl_seconds - 1, cache_ttl_seconds}

\* the (path, max_commits) pairs of the requests
CacheRequests ==
    {<<PathAlpha, 1>>, <<PathAlpha, DefaultMaxCommits>>,
     <<PathBeta, DefaultMaxCommits>>}

ClearTargets == {SomePath(PathAlpha), SomePath(PathBeta), NoPath}

InitCache ==
    /\ ch_switched = {}
    /\ ch_log = {}
    /\ ch_last = [op |-> "none"]
    /\ ch_ops = 0
    /\ walk = <<>>
    /\ max_commits = 0
    /\ since_days = 0
    /\ now = AnalysisDay
    /\ recent_commits = <<>>
    /\ cpc = "idle"
    /\ JqlIdle
    /\ SuggestIdle
    /\ BatchIdle
    /\ ScanIdle
    /\ RefIdle
    /\ ToolIdle
    /\ PrioIdle
    /\ RouteIdle
    /\ StaleIdle

\* analyze_folders for a request of one path: the sequential branch,
\* [analyze_repo(path)]
AnalyzeOne(path, maxc, use_cache) ==
    /\ ch_ops < MaxSteps
    /\ LET f == AnalyzeFunc(cache, use_cache, path, maxc, DefaultSinceDays, now, clock)
           r == AnalyzeRepo(f.result, path)
           fresh == AnalyzeRepo(GetWorkSummary(path, maxc, DefaultSinceDays, now), path)
       IN /\ cache' = f.cache
          /\ ch_log' = ch_log \cup
                {[key |-> e.key, value |-> e.value, stored_at |-> e.stored_at,
                  cleared |-> FALSE] : e \in f.cache \ cache}
          /\ ch_last' = [op |-> "analyze", path |-> path, max_commits |-> maxc,
                         since_days |-> DefaultSinceDays, use_cache |-> use_cache,
                         at |-> clock, response |-> <<r.value>>,
                         recomputed |-> <<fresh.value>>]
    /\ ch_ops' = ch_ops + 1
    /\ UNCHANGED <<ch_switched, clock>>
    /\ UNCHANGED <<bt_paths, bt_max_commits, bt_since_days, bt_parallel,
                   bt_use_cache, bt_op, bt_pc, futures, done_queue, bt_results,
                   bt_summaries, bt_response, bt_raised>>
    /\ UNCHANGED <<sg_summaries, sg_project, runs, calls>>
    /\ UNCHANGED <<commitVars, jqlVars, scanVars, refVars, toolVars, prioVars, routeVars, staleVars>>

\* clear_analysis_cache(repo_path)
ClearAnalysisCache(repo_path) ==
    /\ ch_ops < MaxSteps
    /\ cache' = ClearCache(cache, repo_path)
    /\ ch_log' = {IF repo_path = NoPath \/ <<e.key[1]>> = repo_path
                  THEN [e EXCEPT !.cleared = TRUE] ELSE e : e \in ch_log}
    /\ ch_last' = [op |-> "clear", path |-> repo_path, at |-> clock]
    /\ ch_ops' = ch_ops + 1
    /\ UNCHANGED <<ch_switched, clock>>
    /\ UNCHANGED <<bt_paths, bt_max_commits, bt_since_days, bt_parallel,
                   bt_use_cache, bt_op, bt_pc, futures, done_queue, bt_results,
                   bt_summaries, bt_response, bt_raised>>
    /\ UNCHANGED <<sg_summaries, sg_project, runs, calls>>
    /\ UNCHANGED <<commitVars, jqlVars, scanVars, refVars, toolVars, prioVars, routeVars, staleVars>>

\* time passes between two requests
CacheTick(d) ==
    /\ ch_ops < MaxSteps
    /\ clock' = clock + d
    /\ ch_ops' = ch_ops + 1
    /\ UNCHANGED <<ch_switched, ch_log, ch_last>>
    /\ UNCHANGED <<sg_summaries, sg_project, runs, calls>>
    /\ UNCHANGED <<commitVars, jqlVars, batchVars, scanVars, refVars, toolVars, prioVars, routeVars, staleVars>>

\* somebody checks out another branch in a repository between two requests
SwitchBranch(path) ==
    /\ ch_ops < MaxSteps
    /\ path \notin ch_switched
    /\ ch_switched' = ch_switched \cup {path}
    /\ ch_ops' = ch_ops + 1
    /\ UNCHANGED <<ch_log, ch_last>>
    /\ UNCHANGED <<commitVars, jqlVars, suggestVars, batchVars, scanVars, refVars, toolVars, prioVars, routeVars, staleVars>>

NextCache ==
    \/ \E q \in CacheRequests, use_cache \in BOOLEAN : AnalyzeOne(q[1], q[2], use_cache)
    \/ \E repo_path \in ClearTargets : ClearAnalysisCache(repo_path)
    \/ \E d \in TickSteps : CacheTick(d)
    \/ \E path \in {PathAlpha, PathBeta} : SwitchBranch(path)

SpecCache == InitCache /\ [][NextCache]_vars

\* snapshots of the log that the given request may be answered from: same
\* key, younger than the TTL, not covered by a clear since they were stored
LiveSnapshots(q) ==
    {e \in ch_log :
        /\ e.key = <<q.path, q.max_commits, q.since_days>>
        /\ q.at - e.stored_at < cache_ttl_seconds
        /\ ~e.cleared}

\* C20: after any sequence of analyses and clears, an analysis with
\* use_cache = false returns what the repository holds now, and an analysis
\* with use_cache = true returns either that or a snapshot stored under the
\* identical (path, max_commits, since_days), younger than the TTL of 300 s
\* and not cleared (by path or entirely) since it was stored.
C20_CacheKeyTtlClear ==
    ch_last.op = "analyze" =>
        \/ ch_last.response = ch_last.recomputed
        \/ /\ ch_last.use_cache
           /\ \E e \in LiveSnapshots(ch_last) : ch_last.response = <<e.value>>

\* a cached analysis answers from a snapshot that is 299 s old although the
\* repository changed in between
C20_Witness ==
    /\ ch_last.op = "analyze"
    /\ ch_last.use_cache
    /\ ch_last.response # ch_last.recomputed
    /\ \E e \in LiveSnapshots(ch_last) : ch_last.at - e.stored_at = cache_ttl_seconds - 1

\* a cached analysis recomputes because the only snapshot of its key has
\* reached the TTL
C20_WitnessExpired ==
    /\ ch_last.op = "analyze"
    /\ ch_last.use_cache
    /\ \E e \in ch_log :
          /\ e.key = <<ch_last.path, ch_last.max_commits, ch_last.since_days>>
          /\ ch_last.at - e.stored_at = cache_ttl_seconds
          /\ ~e.cleared
          /\ <<e.value>> # ch_last.response
    /\ ch_last.response = ch_last.recomputed

\* a cached analysis recomputes because its snapshot was cleared
C20_WitnessCleared ==
    /\ ch_last.op = "analyze"
    /\ ch_last.use_cache
    /\ \E e \in ch_log :
          /\ e.key = <<ch_last.path, ch_last.max_commits, ch_last.since_days>>
          /\ ch_last.at = e.stored_at
          /\ e.cleared
          /\ <<e.value>> # ch_last.response
    /\ ch_last.response = ch_last.recomputed

\* an uncached analysis recomputes although a live snapshot of its key exists
C20_WitnessBypass ==
    /\ ch_last.op = "analyze"
    /\ ~ch_last.use_cache
    /\ \E e \in LiveSnapshots(ch_last) : <<e.value>> # ch_last.response


(***************************************************************************)
(* Ticket Grouper priorities: suggest called on one repository whose       *)
(* uncommitted files and commit sizes range over the thresholds of         *)
(* _infer_priority.                                                        *)
(***************************************************************************)
MaxFileCount == 25      \* largest number of files of one commit or of one kind of change
MaxInsertions == 502    \* largest number of insertions of one commit

FileProbes == {0, 3, 4, 10, 11, 20, 21, MaxFileCount}

InsertionProbes == {0, 200, 201, 500, 501, MaxInsertions}

\* the files of the work tree: f00, f01, ...
FileName(k) == <<"f">> \o TwoDigits(k)

FileChanges(n) == [k \in 1..n |-> [path |-> FileName(k), change_type |-> "modified"]]

UncommittedOf(staged, unstaged, untracked) ==
    [staged |-> FileChanges(staged),
     unstaged |-> [k \in 1..unstaged |->
                      [path |-> FileName(staged + k), change_type |-> "modified"]],
     untracked |-> [k \in 1..untracked |-> FileName(staged + unstaged + k)]]

PlainConfig == [current_branch |-> BranchMain, branches |-> <<Branch(BranchMain)>>]

\* the commits of the repository: one of the given size, and optionally a
\* second one of the same week and area
SizedCommits(files_changed, insertions, second) ==
    <<Commit(<<"1","a","1","b","1","c","1","d","1","e">>,
             <<"t","i","d","y"," ","u","p">>, 0, files_changed, insertions)>>
    \o (IF second
        THEN <<Commit(<<"2","a","2","b","2","c","2","d","2","e">>,
                      <<"m","o","r","e"," ","t","i","d","y">>, 1, 8, 150)>>
        ELSE <<>>)

\* what is recorded of a candidate: the totals of its group and its priority
PriorityEntry(summary, ticket) ==
    LET u == summary.uncommitted
        own == SelectSeq(summary.recent_commits,
                         LAMBDA c : c.short_sha \in Range(ticket.source_commits))
    IN IF ticket.source_commits = <<>>
       THEN [kind |-> "uncommitted",
             files |-> Len(u.staged) + Len(u.unstaged) + Len(u.untracked),
             staged |-> Len(u.staged),
             insertions |-> 0, priority |-> ticket.priority]
       ELSE [kind |-> "commits",
             files |-> SumOf(own, LAMBDA c : c.files_changed),
             staged |-> 0,
             insertions |-> SumOf(own, LAMBDA c : c.insertions),
             priority |-> ticket.priority]

InitPriority ==
    /\ pr_log = <<>>
    /\ CommitIdle
    /\ JqlIdle
    /\ SuggestIdle
    /\ BatchIdle
    /\ ScanIdle
    /\ RefIdle
    /\ ToolIdle
    /\ CacheIdle
    /\ RouteIdle
    /\ StaleIdle

\* what one call suggest([summary], key) logs: an entry for each candidate
PriorityLog(summary, out) == [i \in DOMAIN out |-> PriorityEntry(summary, out[i])]

\* suggest on a repository with uncommitted files only
SuggestUncommittedOnly ==
    /\ pr_log = <<>>
    /\ \E staged \in FileProbes, unstaged \in 0..2, untracked \in 0..1 :
          \E summary \in {WorkSummary(RepoA, PlainConfig,
                                      UncommittedOf(staged, unstaged, untracked), <<>>)} :
              \E out \in {Suggest(<<summary>>, DefaultKey)} :
                  pr_log' = PriorityLog(summary, out)
    /\ UNCHANGED <<commitVars, jqlVars, suggestVars, batchVars, scanVars, refVars, toolVars, cacheVars, routeVars, staleVars>>

\* suggest on a repository with one group of commits and one uncommitted file
SuggestCommitGroup ==
    /\ pr_log = <<>>
    /\ \E files_changed \in FileProbes, insertions \in InsertionProbes, second \in BOOLEAN :
          \E summary \in {WorkSummary(RepoA, PlainConfig, UncommittedOf(0, 1, 0),
                                      SizedCommits(files_changed, insertions, second))} :
              \E out \in {Suggest(<<summary>>, DefaultKey)} :
                  pr_log' = PriorityLog(summary, out)
    /\ UNCHANGED <<commitVars, jqlVars, suggestVars, batchVars, scanVars, refVars, toolVars, cacheVars, routeVars, staleVars>>

NextPriority == SuggestUncommittedOnly \/ SuggestCommitGroup

SpecPriority == InitPriority /\ [][NextPriority]_vars

PriorityRank(p) ==
    CASE p = "Minor" -> 0 [] p = "Normal" -> 1 [] p = "Major" -> 2 [] p = "Critical" -> 3

PriorityEntries == Range(pr_log)

\* C22: the priority of a candidate follows the thresholds on the totals of
\* its group (more than 20 files or more than 500 insertions: Critical;
\* otherwise more than 10 files or more than 200 insertions: Major; otherwise
\* more than 3 files: Normal; otherwise Minor), a candidate whose totals are
\* both at least those of another group never has the lower priority, and the
\* uncommitted-work candidate counts its staged, unstaged and untracked files
\* with zero insertions, so that 25 staged files give Critical.
C22_PriorityThresholdsMonotone ==
    /\ \A e \in PriorityEntries :
          /\ e.priority =
                (IF e.files > 20 \/ e.insertions > 500 THEN "Critical"
                 ELSE IF e.files > 10 \/ e.insertions > 200 THEN "Major"
                 ELSE IF e.files > 3 THEN "Normal" ELSE "Minor")
          /\ (e.kind = "uncommitted" /\ e.staged >= 25) => e.priority = "Critical"
    /\ \A e \in PriorityEntries :
          \A file_count \in 0..e.files :
              \A insertions \in {i \in InsertionProbes \cup {0, e.insertions} :
                                     i <= e.insertions} :
                  PriorityRank(InferPriority(file_count, insertions))
                      <= PriorityRank(e.priority)

\* an uncommitted-work candidate of 25 staged files
C22_Witness ==
    \E e \in PriorityEntries :
        e.kind = "uncommitted" /\ e.staged >= 25 /\ e.files = e.staged /\ e.priority = "Critical"

\* a commit group that is Major through its insertions alone
C22_WitnessInsertions ==
    \E e \in PriorityEntries :
        e.kind = "commits" /\ e.files <= 3 /\ e.insertions > 200 /\ e.priority = "Major"


\* ---- claims about the candidates of one summary ----
IsDirty(summary) ==
    \/ summary.uncommitted.staged # <<>>
    \/ summary.uncommitted.unstaged # <<>>
    \/ summary.uncommitted.untracked # <<>>

\* the uncommitted-work candidates of a repository: the candidates built
\* from its work tree, which carry no source commit
UncommittedCandidates(out, repo_name) ==
    {i \in DOMAIN out : out[i].source_repo = repo_name /\ out[i].source_commits = <<>>}

TrackedCommit(c) == c.jira_refs # <<>>

\* C23: for every WorkSummary, suggest emits exactly one uncommitted-work
\* candidate when the summary has a staged, unstaged or untracked file and
\* none otherwise, whatever its commits and branches are.
C23_OneUncommittedCandidate ==
    \A r \in DOMAIN runs : \A k \in DOMAIN sg_summaries :
        Cardinality(UncommittedCandidates(runs[r].out, sg_summaries[k].repo_name))
            = IF IsDirty(sg_summaries[k]) THEN 1 ELSE 0

\* a dirty repository whose commits are all tracked gets its one
\* uncommitted-work candidate
C23_Witness ==
    /\ Len(runs) >= 1
    /\ IsDirty(sg_summaries[1])
    /\ sg_summaries[1].recent_commits # <<>>
    /\ \A c \in Range(sg_summaries[1].recent_commits) : TrackedCommit(c)
    /\ Cardinality(UncommittedCandidates(runs[1].out, sg_summaries[1].repo_name)) = 1

\* a dirty repository with a feature-branch group and a week group gets its
\* one uncommitted-work candidate as well
C23_WitnessWithGroups ==
    /\ Len(runs) >= 1
    /\ sg_summaries[1].uncommitted = OnlyUntracked \/ sg_summaries[1].uncommitted = SomeChanges
    /\ Len(runs[1].out) >= 3
    /\ \E i \in DOMAIN runs[1].out : runs[1].out[i].source_branch = BranchFb1
    /\ Cardinality(UncommittedCandidates(runs[1].out, sg_summaries[1].repo_name)) = 1


\* C24: a commit that carries an issue-key reference is in the source commits
\* of no candidate, neither of a feature-branch group nor of a week/area
\* group, and a repository whose commits are all tracked and that has no
\* uncommitted change contributes no candidate.
C24_TrackedCommitsLeftOut ==
    \A r \in DOMAIN runs : \A k \in DOMAIN sg_summaries :
        LET summary == sg_summaries[k] IN
        /\ \A c \in Range(summary.recent_commits) :
              TrackedCommit(c) =>
                  CandidatesOf(runs[r].out, summary.repo_name, c.short_sha) = {}
        /\ ( /\ \A c \in Range(summary.recent_commits) : TrackedCommit(c)
             /\ ~IsDirty(summary) )
           => \A i \in DOMAIN runs[r].out : runs[r].out[i].source_repo # summary.repo_name

\* a repository with a tracked commit next to a feature-branch group and a
\* week group
C24_Witness ==
    /\ Len(runs) >= 1
    /\ \E c \in Range(sg_summaries[1].recent_commits) : TrackedCommit(c)
    /\ \E i \in DOMAIN runs[1].out :
          runs[1].out[i].source_branch = BranchFb1 /\ runs[1].out[i].source_commits # <<>>
    /\ \E i \in DOMAIN runs[1].out :
          runs[1].out[i].source_branch = BranchMain /\ runs[1].out[i].source_commits # <<>>

\* a clean repository whose only commit is tracked contributes nothing
C24_WitnessNoCandidate ==
    /\ Len(runs) >= 1
    /\ Len(sg_summaries) = 1
    /\ sg_summaries[1].recent_commits # <<>>
    /\ \A c \in Range(sg_summaries[1].recent_commits) : TrackedCommit(c)
    /\ ~IsDirty(sg_summaries[1])
    /\ runs[1].out = <<>>


\* untracked commits of the summary whose message mentions the branch name
MentioningCommits(summary, name) ==
    SelectSeq(summary.recent_commits,
              LAMBDA c : ~TrackedCommit(c) /\ Contains(c.message, name))

\* the commit-based candidates of a branch
BranchCandidates(out, repo_name, name) ==
    {i \in DOMAIN out :
        /\ out[i].source_repo = repo_name
        /\ out[i].source_branch = name
        /\ out[i].source_commits # <<>>}

\* what the claim requires of one branch of one summary in one output
BranchGroupAsClaimed(out, summary, name) ==
    LET group == MentioningCommits(summary, name)
        weeks == {IsoWeek(group[i].date) : i \in DOMAIN group}
        found == BranchCandidates(out, summary.repo_name, name)
    IN /\ (Len(group) >= 1 /\ Len(group) <= FeatureBranchSplit)
            => /\ Cardinality(found) = 1
               /\ \A i \in found :
                     out[i].source_commits = [j \in DOMAIN group |-> group[j].short_sha]
       /\ Len(group) > FeatureBranchSplit => Cardinality(found) = Cardinality(weeks)

\* C25: for each non-default branch known to the repository, the untracked
\* commits whose message mentions the branch name form the group of that
\* branch: with 1 to 12 such commits there is exactly one candidate with that
\* source branch, with more than 12 there is one candidate per ISO week.
C25_FeatureBranchGroups ==
    \A r \in DOMAIN runs : \A k \in DOMAIN sg_summaries :
        \A b \in Range(sg_summaries[k].branches) :
            b.name \notin SuggesterDefaultBranches
                => BranchGroupAsClaimed(runs[r].out, sg_summaries[k], b.name)

\* The same for the non-default branches other than the checked-out one.
FeatureBranchGroupsExceptCurrent ==
    \A r \in DOMAIN runs : \A k \in DOMAIN sg_summaries :
        \A b \in Range(sg_summaries[k].branches) :
            (b.name \notin SuggesterDefaultBranches
                /\ b.name # sg_summaries[k].current_branch)
                => BranchGroupAsClaimed(runs[r].out, sg_summaries[k], b.name)


(***************************************************************************)
(* Ticket Grouper ids: suggest called on summaries whose repository and    *)
(* branch names contain the separator of _make_id or the word              *)
(* `uncommitted`.                                                          *)
(***************************************************************************)
RepoWeb == <<"w","e","b">>

RepoWebApi == <<"w","e","b","-","a","p","i">>

BranchFix == <<"f","i","x">>

BranchApiFix == <<"a","p","i","-","f","i","x">>

BranchUncommitted == <<"u","n","c","o","m","m","i","t","t","e","d">>

IdBranchConfigs ==
    { [current_branch |-> BranchMain, branches |-> <<Branch(BranchMain), Branch(b)>>] :
          b \in {BranchMain, BranchFix, BranchApiFix, BranchUncommitted} }

IdCommitLists ==
    { <<>>,
      <<Commit(<<"1","a","1","b","1","c","1","d","1","e">>,
               <<"M","e","r","g","e"," ","a","p","i","-","f","i","x">>, 0, 1, 1)>>,
      <<Commit(<<"2","a","2","b","2","c","2","d","2","e">>,
               <<"M","e","r","g","e"," ","u","n","c","o","m","m","i","t","t","e","d">>, 1, 1, 1)>>,
      <<Commit(<<"3","a","3","b","3","c","3","d","3","e">>,
               <<"t","i","d","y"," ","u","p">>, 2, 1, 1)>> }

IdSummaries ==
    {WorkSummary(name, cfg, u, cs) :
        name \in {RepoWeb, RepoWebApi}, cfg \in IdBranchConfigs,
        u \in {NoChanges, OnlyUntracked}, cs \in IdCommitLists}

InitIds ==
    /\ sg_summaries \in {<<s>> : s \in IdSummaries}
                            \cup {<<s, t>> : s \in IdSummaries, t \in IdSummaries}
    /\ sg_project = DefaultKey
    /\ runs = <<>>
    /\ calls = 0
    /\ clock = 0
    /\ CommitIdle
    /\ JqlIdle
    /\ BatchIdle
    /\ ScanIdle
    /\ RefIdle
    /\ ToolIdle
    /\ CacheIdle
    /\ PrioIdle
    /\ RouteIdle
    /\ StaleIdle

SpecIds == InitIds /\ [][NextSuggest]_vars

\* C28: within the output of one suggest call no two candidates share an id,
\* for every combination of repository names, branch names, week labels and
\* area names, names with the `-` separator or equal to `uncommitted` and two
\* summaries of the same repository name included.
C28_IdsUniqueWithinCall ==
    \A r \in DOMAIN runs : IsInjective(Ids(runs[r].out))

\* The same for one summary, or two summaries of different repository names,
\* whose names hold no separator and no branch is called `uncommitted`.
IdsUniqueForPlainNames ==
    \A r \in DOMAIN runs :
        ( /\ \A k \in DOMAIN sg_summaries :
                /\ sg_summaries[k].repo_name = RepoWeb
                /\ \A b \in Range(sg_summaries[k].branches) :
                      b.name \in {BranchMain, BranchFix}
          /\ Len(sg_summaries) = 1 )
        => IsInjective(Ids(runs[r].out))


(***************************************************************************)
(* The suggest route over a tracker that holds tickets                     *)
(* (routes/jira_tickets.py, JiraClient.find_existing, create_ticket)       *)
(***************************************************************************)
MaxRouteSteps == 3      \* requests of one behaviour

\* an issue of the tracker
TrackedIssue(key, project, summary, description) ==
    [key |-> key, project |-> project, summary |-> summary,
     description |-> description, status |-> "Open"]

\* the tracker's `field ~ "text"`: the field holds the text, whatever the case
TextMatches(field, text) == Contains(Lower(field), Lower(text))

\* self.client.search_issues(jql, maxResults=n) over the issues of the
\* tracker; Matches is the WHERE clause after `project = safe_key AND`
SearchTracker(issues, safe_key, Matches(_), n) ==
    Take(SelectSeq(issues, LAMBDA issue : issue.project = safe_key /\ Matches(issue)), n)

\* find_existing, strategy 3 (lines 255-267)
RECURSIVE CollectPrMatches(_, _, _, _)
CollectPrMatches(matches, pr_urls, issues, safe_key) ==
    IF pr_urls = <<>> THEN matches
    ELSE LET pr_url == Head(pr_urls)
             pr_ref == SanitizeJqlText(SplitLast(pr_url, PullSep))
             repo_slug == SanitizeJqlText(
                              SplitLast(SplitFirst(pr_url, PullSep), <<"/">>))
         IN CollectPrMatches(
                IF Contains(pr_url, PullSep) /\ repo_slug # <<>> /\ pr_ref # <<>>
                THEN Collect1(matches,
                         SearchTracker(issues, safe_key,
                             LAMBDA issue :
                                 /\ TextMatches(issue.description, repo_slug)
                                 /\ TextMatches(issue.description,
                                                <<"p","u","l","l","/">> \o pr_ref),
                             MaxResultsPr),
                         TRUE)
                ELSE matches,
                Tail(pr_urls), issues, safe_key)

\* JiraClient.find_existing(project_key, repo_name, branch, pr_urls) as the
\* route calls it (no commit_shas), for a project key that validates
FindExistingIn(issues, safe_key, repo_name, branch, pr_urls) ==
    LET clean_repo == SanitizeJqlText(repo_name)
        clean_branch == SanitizeJqlText(branch)
        m1 == IF clean_repo # <<>>
              THEN Collect1(<<>>,
                       SearchTracker(issues, safe_key,
                           LAMBDA issue : TextMatches(issue.summary, clean_repo),
                           MaxResultsCollect),
                       TRUE)
              ELSE <<>>
        m2 == IF branch # <<>> /\ branch \notin DefaultBranches /\ clean_branch # <<>>
              THEN Collect1(m1,
                       SearchTracker(issues, safe_key,
                           LAMBDA issue :
                               \/ TextMatches(issue.summary, clean_branch)
                               \/ TextMatches(issue.description, clean_branch),
                           MaxResultsCollect),
                       TRUE)
              ELSE m1
    IN CollectPrMatches(m2, pr_urls, issues, safe_key)

\* TicketSuggestion(...) as the suggester builds it: the fields it does not
\* pass take the defaults of the model (jira_models.py lines 50-52)
TicketSuggestion(ticket) ==
    ticket @@ [already_tracked |-> FALSE, existing_jira |-> <<>>, selected |-> TRUE]

\* the loop body of suggest_tickets (lines 32-42)
MarkExistingKeepsSelected(suggestion, existing) ==
    IF existing # <<>>
    THEN [suggestion EXCEPT !.existing_jira = existing,
                            !.already_tracked = TRUE]
    ELSE suggestion

MarkExisting(suggestion, existing) ==
    IF existing # <<>>
    THEN [suggestion EXCEPT !.existing_jira = existing,
                            !.already_tracked = TRUE,
                            !.selected = FALSE]
    ELSE suggestion

\* suggest_tickets(req): the response, or the ValueError of find_existing
\* that leaves the route when the project key does not validate
SuggestTickets(summaries, project_key, issues) ==
    LET suggestions == Suggest(summaries, project_key)
        v == ValidateProjectKey(project_key)
    IN IF suggestions = <<>> THEN [raised |-> "none", value |-> <<>>]
       ELSE IF ~v.ok THEN [raised |-> "ValueError", value |-> <<>>]
       ELSE [raised |-> "none",
             value |-> [i \in DOMAIN suggestions |->
                           MarkExisting(TicketSuggestion(suggestions[i]),
                               FindExistingIn(issues, v.key,
                                              suggestions[i].source_repo,
                                              suggestions[i].source_branch,
                                              suggestions[i].pr_urls))]]

BadKey == <<"b","a","d"," ","k","e","y">>

IssueElsewhere ==
    TrackedIssue(<<"T","E","A","M","-","1">>, DefaultKey,
                 <<"f","i","x"," ","l","o","g","i","n">>,
                 <<"l","o","g","i","n"," ","p","a","g","e">>)

IssueOnFb1 ==
    TrackedIssue(<<"T","E","A","M","-","2">>, DefaultKey,
                 <<"p","o","l","i","s","h">>,
                 <<"s","e","e"," ","b","r","a","n","c","h"," ","f","b","-","1">>)

IssueOnPull ==
    TrackedIssue(<<"T","E","A","M","-","3">>, DefaultKey,
                 <<"r","e","v","i","e","w">>,
                 <<"o","/","r","/","p","u","l","l","/","7">>)

RouteTrackers == { <<>>, <<IssueElsewhere>>, <<IssueOnFb1>>, <<IssueElsewhere, IssueOnPull>> }

RouteSummaries ==
    {WorkSummary(RepoA, cfg, u, cs) :
        cfg \in BranchConfigs, u \in {NoChanges, SomeChanges},
        cs \in {x \in CommitLists : Len(x) <= 2 /\ NewestFirst(x)}}

InitRoute ==
    /\ rt_summaries \in {<<s>> : s \in RouteSummaries}
    /\ rt_key \in {DefaultKey, BadKey}
    /\ rt_issues \in RouteTrackers
    /\ rt_seen = <<>>
    /\ rt_resp = <<>>
    /\ rt_raised = "none"
    /\ rt_made = <<>>
    /\ rt_steps = 0
    /\ CommitIdle
    /\ JqlIdle
    /\ SuggestIdle
    /\ BatchIdle
    /\ ScanIdle
    /\ RefIdle
    /\ ToolIdle
    /\ CacheIdle
    /\ PrioIdle
    /\ StaleIdle

\* POST /api/jira/suggest
SuggestTicketsRequest ==
    /\ rt_steps < MaxRouteSteps
    /\ \E r \in {SuggestTickets(rt_summaries, rt_key, rt_issues)} :
          /\ rt_resp' = r.value
          /\ rt_raised' = r.raised
    /\ rt_seen' = rt_issues
    /\ rt_steps' = rt_steps + 1
    /\ UNCHANGED <<rt_summaries, rt_key, rt_issues, rt_made>>
    /\ UNCHANGED <<commitVars, jqlVars, suggestVars, batchVars, scanVars, refVars, toolVars, cacheVars, prioVars, staleVars>>

\* POST /api/jira/create for one candidate of the last response: the request
\* carries the candidate's project key, summary and description, and
\* create_ticket stores them in a new issue
CreateTicketRequest(i) ==
    /\ rt_steps < MaxRouteSteps
    /\ i \in DOMAIN rt_resp
    /\ rt_issues' = Append(rt_issues,
           TrackedIssue(<<"T","E","A","M","-">> \o NatStr(10 + Len(rt_issues)),
                        rt_resp[i].project_key, rt_resp[i].summary,
                        rt_resp[i].description))
    /\ rt_made' = Append(rt_made, rt_resp[i].id)
    /\ rt_steps' = rt_steps + 1
    /\ UNCHANGED <<rt_summaries, rt_key, rt_seen, rt_resp, rt_raised>>
    /\ UNCHANGED <<commitVars, jqlVars, suggestVars, batchVars, scanVars, refVars, toolVars, cacheVars, prioVars, staleVars>>

NextRoute ==
    \/ SuggestTicketsRequest
    \/ \E i \in 1..(MaxCommitsIn + 1) : CreateTicketRequest(i)

SpecRoute == InitRoute /\ [][NextRoute]_vars

\* C21: every candidate of a suggest response has already_tracked = true
\* exactly when its existing_jira is non-empty and exactly when its selected
\* is false, and these are exactly the candidates for which the search over
\* the tracker found a ticket.
C21_TrackedFlagsAgree ==
    \A i \in DOMAIN rt_resp :
        LET c == rt_resp[i]
            found == FindExistingIn(rt_seen, ValidateProjectKey(rt_key).key,
                                    c.source_repo, c.source_branch, c.pr_urls)
        IN /\ c.already_tracked <=> (c.existing_jira # <<>>)
           /\ c.already_tracked <=> (c.selected = FALSE)
           /\ c.already_tracked <=> (found # <<>>)
           /\ c.existing_jira = found

\* a response with a candidate the search found a ticket for
C21_Witness ==
    \E i \in DOMAIN rt_resp :
        /\ rt_resp[i].already_tracked
        /\ rt_resp[i].existing_jira # <<>>
        /\ ~rt_resp[i].selected

\* a response over a tracker that holds issues, with a candidate none of
\* them matches
C21_WitnessUntracked ==
    /\ rt_seen # <<>>
    /\ \E i \in DOMAIN rt_resp :
          /\ ~rt_resp[i].already_tracked
          /\ rt_resp[i].existing_jira = <<>>
          /\ rt_resp[i].selected


\* the issue refers to the candidate's own work: its branch, one of its
\* pull-request URLs or one of its commits
RefersToWorkOf(issue, c) ==
    LET text == issue.summary \o <<"\n">> \o issue.description
    IN \/ c.source_branch # <<>> /\ TextMatches(text, c.source_branch)
       \/ \E k \in DOMAIN c.pr_urls : TextMatches(text, c.pr_urls[k])
       \/ \E k \in DOMAIN c.source_commits : TextMatches(text, c.source_commits[k])

\* C30: a candidate of a suggest response is marked already_tracked only when
\* a ticket of the tracker refers to the candidate's own work (its branch,
\* one of its pull-request URLs or its commits); a ticket created for
\* another group of the repository does not mark it.
C30_TrackedOnlyForOwnWork ==
    \A i \in DOMAIN rt_resp :
        rt_resp[i].already_tracked =>
            \E k \in DOMAIN rt_seen : RefersToWorkOf(rt_seen[k], rt_resp[i])

\* what the route does instead: a ticket whose summary holds the name of the
\* repository marks every candidate of the repository
TrackedOnlyForOwnWorkOrRepoName ==
    \A i \in DOMAIN rt_resp :
        rt_resp[i].already_tracked =>
            \E k \in DOMAIN rt_seen :
                \/ RefersToWorkOf(rt_seen[k], rt_resp[i])
                \/ TextMatches(rt_seen[k].summary, rt_resp[i].source_repo)


(***************************************************************************)
(* Stale branches of one repository (FolderScanner._scan_repo)             *)
(***************************************************************************)
MaxTrunk == 201     \* commits of the longest trunk
MaxAge == 62        \* age of the oldest tip, in half days

BranchMaster == <<"m","a","s","t","e","r">>

BranchDevelop == <<"d","e","v","e","l","o","p">>

BranchDevelopment == <<"d","e","v","e","l","o","p","m","e","n","t">>

TrunkLens == {3, StaleWalkCap, MaxTrunk}

TipAges == {2 * StaleDays, 2 * StaleDays + 1, MaxAge}

\* a branch that is one commit ahead of the trunk: its tip, then the trunk
AheadOfTrunk(name, sha, n, age) == BranchHead(name, <<sha>> \o Trunk(n), age)

\* a branch whose tip is the commit at the given depth of the trunk
OnTrunk(name, n, depth, age) == BranchHead(name, SubSeq(Trunk(n), depth, n), age)

\* a branch that left the trunk at its root and has one commit of its own
OffTrunk(name, sha, age) == BranchHead(name, <<sha, 1>>, age)

\* main, when present, is the trunk; master, develop and development are one
\* commit of their own ahead of it
DefaultHeads(names, n, age) ==
    (IF BranchMain \in names THEN <<BranchHead(BranchMain, Trunk(n), 0)>> ELSE <<>>)
    \o (IF BranchMaster \in names
        THEN <<AheadOfTrunk(BranchMaster, 2002, n, age)>> ELSE <<>>)
    \o (IF BranchDevelopment \in names
        THEN <<AheadOfTrunk(BranchDevelopment, 2003, n, age)>> ELSE <<>>)
    \o (IF BranchDevelop \in names
        THEN <<AheadOfTrunk(BranchDevelop, 2004, n, age)>> ELSE <<>>)

FeatureHeads(n) ==
    {OnTrunk(BranchFb1, n, depth, age) :
        depth \in {1, 2, n - 1, n} \cap 1..n, age \in TipAges}
        \cup {OffTrunk(BranchFb1, 3001, age) : age \in TipAges \cup {0}}

\* repositories with fb-1 checked out
StaleTrees ==
    {[WorkTree(TRUE, Len(fb.history), 0, 0, 0) EXCEPT
         !.active = BranchFb1,
         !.detached = detached,
         !.heads = DefaultHeads(names, n, age) \o <<fb>> \o extra] :
       names \in SUBSET {BranchMain, BranchMaster, BranchDevelop, BranchDevelopment},
       n \in TrunkLens, age \in {0, MaxAge}, detached \in BOOLEAN,
       fb \in FeatureHeads(3),
       extra \in {<<>>, <<OffTrunk(BranchFb2, 3002, MaxAge)>>}}
    \cup
    UNION {{[WorkTree(TRUE, Len(fb.history), 0, 0, 0) EXCEPT
                !.active = BranchFb1,
                !.heads = DefaultHeads({name}, n, 0) \o <<fb>>] :
              name \in {BranchMain, BranchDevelop}, fb \in FeatureHeads(n)} :
           n \in TrunkLens}

InitStale ==
    /\ st_tree \in StaleTrees
    /\ st_pc = "ready"
    /\ st_baseline = <<>>
    /\ st_info = <<>>
    /\ CommitIdle
    /\ JqlIdle
    /\ SuggestIdle
    /\ BatchIdle
    /\ ScanIdle
    /\ RefIdle
    /\ ToolIdle
    /\ CacheIdle
    /\ PrioIdle
    /\ RouteIdle

\* FolderScanner._scan_repo(path) of the repository
ScanRepoCall ==
    /\ st_pc = "ready"
    /\ st_info' = ScanRepo(PathR1, NoName, [UsualWorkTrees EXCEPT ![PathR1] = st_tree])
    /\ st_baseline' = DefaultBranchName(st_tree)
    /\ st_pc' = "returned"
    /\ UNCHANGED st_tree
    /\ UNCHANGED <<commitVars, jqlVars, suggestVars, batchVars, scanVars, refVars, toolVars, cacheVars, prioVars, routeVars>>

NextStale == ScanRepoCall

SpecStale == InitStale /\ [][NextStale]_vars

StaleNames == {st_info.stale_branches[i].name : i \in DOMAIN st_info.stale_branches}

\* the tip of the branch is reachable from the branch of the given name
ReachableFrom(b, name) == b.history[1] \in Range(HeadNamed(st_tree, name).history)

\* C26: a non-default branch is listed in stale_branches exactly when its
\* tip commit is older than the 30-day cutoff and is not reachable from the
\* default branch, however long the history of the default branch is, and
\* every listed entry has days_stale >= 30.
C26_StaleExactlyOldUnmerged ==
    (st_pc = "returned" /\ st_baseline # <<>>) =>
        /\ \A i \in DOMAIN st_tree.heads :
              LET b == st_tree.heads[i]
              IN b.name # st_baseline =>
                    (b.name \in StaleNames <=>
                        (b.age > 2 * StaleDays /\ ~ReachableFrom(b, st_baseline)))
        /\ \A i \in DOMAIN st_info.stale_branches :
              st_info.stale_branches[i].days_stale >= StaleDays

\* what the code gives: reachability within the first StaleWalkCap commits
\* of the walk from the default branch
StaleExactlyOldOutsideWalk ==
    (st_pc = "returned" /\ st_baseline # <<>>) =>
        /\ \A i \in DOMAIN st_tree.heads :
              LET b == st_tree.heads[i]
              IN b.name # st_baseline =>
                    (b.name \in StaleNames <=>
                        /\ b.age > 2 * StaleDays
                        /\ b.history[1] \notin
                              Range(Take(HeadNamed(st_tree, st_baseline).history,
                                         StaleWalkCap)))
        /\ \A i \in DOMAIN st_info.stale_branches :
              st_info.stale_branches[i].days_stale >= StaleDays

\* the order of the names as the claim gives it
ClaimedOrder == <<BranchMain, BranchMaster, BranchDevelopment, BranchDevelop>>

\* C27: the baseline of stale-branch detection is the first branch present
\* in the order main, master, development, develop, and that branch is never
\* reported as stale.
C27_BaselineFirstInOrder ==
    (st_pc = "returned" /\ FirstPresent(st_tree, ClaimedOrder) # <<>>) =>
        /\ st_baseline = FirstPresent(st_tree, ClaimedOrder)
        /\ FirstPresent(st_tree, ClaimedOrder) \notin StaleNames

\* what the code gives: the order main, master, develop, development
BaselineFirstInCodeOrder ==
    (st_pc = "returned" /\ FirstPresent(st_tree, DefaultCandidates) # <<>>) =>
        /\ st_baseline = FirstPresent(st_tree, DefaultCandidates)
        /\ st_baseline \notin StaleNames


\* C29: git_pull restores what it stashed: whenever it auto-stashed the
\* uncommitted changes, the stash has been popped when it returns, whether
\* the checkout and the pull succeeded or one of them failed; the changes
\* are never left in the stash when the call returns success = false.
\* (A pop that git itself refuses is left aside.)
C29_StashPoppedOnEveryReturn ==
    (/\ tl_op = "git_pull"
     /\ tl_pc = "returned"
     /\ tl_env.dirty
     /\ tl_env.stash = "ok"
     /\ tl_env.pop = "ok")
        => tl_stash = 0

\* what the code gives: the stash is popped on the path that returns
\* success = true, and on no other
StashPoppedOnSuccess ==
    (/\ tl_op = "git_pull"
     /\ tl_pc = "returned"
     /\ tl_env.dirty
     /\ tl_env.stash = "ok"
     /\ tl_env.pop = "ok")
        => (tl_stash = 0 <=> tl_result.success)

=============================================================================
